---- MODULE Spec2Model ----
(***************************************************************************)
(* zktrie-ng: the trie engine (src/src/trie/zktrie/imp.rs), the node model *)
(* (src/src/trie/node/imp.rs), the hash scheme contract                    *)
(* (src/src/hash/mod.rs) and the node store (src/src/db).                  *)
(*                                                                         *)
(* Scaling.  A ZkHash is HASH_SIZE bytes (32 in the source, 2 here) and    *)
(* NODE_KEY_VALID_BYTES of them address the trie (31 in the source, 1      *)
(* here), so TRIE_MAX_LEVELS = NODE_KEY_VALID_BYTES * 8 is 8 instead of    *)
(* 248.  Bytes keep their 8 bits.                                          *)
(*                                                                         *)
(* Hashing.  The Poseidon permutation is an imported primitive; it is      *)
(* modelled as a collision-free function: the hash of (kind, a, b) is the  *)
(* flat sequence <<kind, Len(a)>> \o a \o b.  Node keys are HASH_SIZE      *)
(* bytes, big-endian.                                                      *)
(***************************************************************************)
EXTENDS Integers, Sequences, FiniteSets, TLC

HASH_SIZE == 2
NODE_KEY_VALID_BYTES == 1
TRIE_MAX_LEVELS == NODE_KEY_VALID_BYTES * 8

\* number of mutating operations in one run
MaxOps == 4

\* calls made to a key-value store in one run
MaxCalls == 3

HASH_DOMAIN_ELEMS_BASE == 256
HASH_DOMAIN_BYTE32 == 2 * HASH_DOMAIN_ELEMS_BASE

\* NodeType tags
Leaf == 4
Empty == 5
BranchLTRT == 6
BranchLTRB == 7
BranchLBRT == 8
BranchLBRB == 9

Pow2(n) == 2 ^ n

-----------------------------------------------------------------------------
(* Hash scheme *)

ZERO == [i \in 1..HASH_SIZE |-> 0]

\* an empty write-once cell
Unset == <<>>

\* Fr::from_canonical_repr: the value is below the field modulus.  The scaled
\* modulus has top byte 48 (0x30, as BN254's) and zero below.
IsFieldElement(bytes) == bytes[1] < 48

\* H::hash(kind, [a, b]).  Every input the engine passes is canonical (a node
\* key, a validated preimage, a zero-padded half, or an earlier output), so
\* raw_hash's InvalidFieldElement branch is not taken and the result is total.
Hash(kind, a, b) == <<kind, Len(a)>> \o a \o b

\* H::new_hash_try_from_bytes on a HASH_SIZE-byte input: Ok iff canonical
new_hash_try_from_bytes_ok(bytes) == IsFieldElement(bytes)

HALF_LEN == HASH_SIZE \div 2

\* H::hash_bytes for a HASH_SIZE-byte input (v.len() > HALF_LEN): the first
\* half goes to v_lo[HALF_LEN..], the second half to v_hi[HALF_LEN..]
hash_bytes(v) ==
    LET v_lo == [i \in 1..HASH_SIZE |-> IF i > HALF_LEN THEN v[i - HALF_LEN] ELSE 0]
        v_hi == [i \in 1..HASH_SIZE |->
                    IF i > HALF_LEN /\ i <= Len(v) THEN v[HALF_LEN + (i - HALF_LEN)] ELSE 0]
    IN Hash(HASH_DOMAIN_BYTE32, v_lo, v_hi)

\* bit i of compression_flag
FlagBit(flags, i) == (flags \div Pow2(i)) % 2 = 1

\* the first loop of hash_bytes_array: one hash per preimage, or an error
LeafHashes(value_bytes, flags) ==
    [i \in 1..Len(value_bytes) |->
        IF (i - 1) <= 24 /\ FlagBit(flags, i - 1)
        THEN hash_bytes(value_bytes[i])
        ELSE value_bytes[i]]

LeafHashesOk(value_bytes, flags) ==
    \A i \in 1..Len(value_bytes) :
        ((i - 1) <= 24 /\ FlagBit(flags, i - 1))
            \/ new_hash_try_from_bytes_ok(value_bytes[i])

\* a pass that moves the unpaired last element to the front of the next round
ReduceRound_odd_first(hashes, domain) ==
    LET length == Len(hashes)
    IN IF length % 2 = 0
       THEN [i \in 1..(length \div 2) |-> Hash(domain, hashes[2 * i - 1], hashes[2 * i])]
       ELSE <<hashes[length]>>
            \o [i \in 1..(length \div 2) |-> Hash(domain, hashes[2 * i - 1], hashes[2 * i])]

\* one pass of the while loop of hash_bytes_array
ReduceRound(hashes, domain) ==
    LET length == Len(hashes)
    IN [i \in 1..((length \div 2) + (length % 2)) |->
            IF i <= (length \div 2)
            THEN Hash(domain, hashes[2 * i - 1], hashes[2 * i])
            ELSE hashes[length]]

RECURSIVE Reduce(_, _)
Reduce(hashes, domain) ==
    IF Len(hashes) > 1 THEN Reduce(ReduceRound(hashes, domain), domain)
    ELSE hashes[1]

\* H::hash_bytes_array: [ok, hash]
hash_bytes_array(value_bytes, flags) ==
    IF ~LeafHashesOk(value_bytes, flags)
    THEN [ok |-> FALSE, hash |-> Unset]
    ELSE [ok |-> TRUE,
          hash |-> Reduce(LeafHashes(value_bytes, flags),
                          Len(value_bytes) * HASH_DOMAIN_ELEMS_BASE)]

-----------------------------------------------------------------------------
(* Keys and values of the runs *)

\* user keys (opaque byte strings in the source)
Keys == 1..5

\* the addressed bits of each key's node key: 1 and 2 part at level 0, 2 and 3
\* at level 1, 1 and 4 at the last level that can hold a branch
\* (TRIE_MAX_LEVELS - 2), 1 and 5 only at level TRIE_MAX_LEVELS - 1
KeyBits(k) ==
    CASE k = 1 -> 0
      [] k = 2 -> 1
      [] k = 3 -> 3
      [] k = 4 -> Pow2(TRIE_MAX_LEVELS - 2)
      [] OTHER -> Pow2(TRIE_MAX_LEVELS - 1)

\* KeyHasher::hash = H::hash_bytes(key): the node key, HASH_SIZE bytes
\* big-endian.  The permutation is a primitive; its value on the five keys is
\* fixed here: a canonical element whose unaddressed top byte is 1.
KeyHasher_hash(k) ==
    [i \in 1..HASH_SIZE |->
        IF i = 1 THEN 1
        ELSE (KeyBits(k) \div (256 ^ (HASH_SIZE - i))) % 256]

\* (value_preimages, compression_flags) pairs the runs write
Value1 == [pre |-> << [i \in 1..HASH_SIZE |-> 1] >>, flags |-> 1]
Value2 == [pre |-> << [i \in 1..HASH_SIZE |-> 2], [i \in 1..HASH_SIZE |-> 1] >>, flags |-> 0]
\* not a field element and not compressed: hashing it fails
ValueBad == [pre |-> << [i \in 1..HASH_SIZE |-> 255] >>, flags |-> 0]
Values == {Value1, Value2}
NoValue == [pre |-> <<>>, flags |-> 0]

-----------------------------------------------------------------------------
(* Node model *)

\* LazyNodeHash::Hash(h)
HashRef(h) == [lazy |-> FALSE, hash |-> h, index |-> 0]
\* LazyNodeHash::LazyBranch { index, resolved }: the cell `resolved` is the
\* node_hash cell of dirty_branch_nodes[index], read through the arena
LazyBranch(i) == [lazy |-> TRUE, hash |-> Unset, index |-> i]

\* Node::empty
EmptyNode ==
    [nt |-> Empty, node_key |-> ZERO, kpre |-> <<>>, pre |-> <<>>, flags |-> 0,
     l |-> HashRef(ZERO), r |-> HashRef(ZERO), node_hash |-> ZERO]

\* Node::new_branch
new_branch(node_type, child_left, child_right) ==
    [nt |-> node_type, node_key |-> ZERO, kpre |-> <<>>, pre |-> <<>>, flags |-> 0,
     l |-> child_left, r |-> child_right, node_hash |-> Unset]

\* Node::new_leaf
new_leaf(node_key, value_preimages, compress_flags, node_key_preimage) ==
    [nt |-> Leaf, node_key |-> node_key, kpre |-> node_key_preimage,
     pre |-> value_preimages, flags |-> compress_flags,
     l |-> HashRef(ZERO), r |-> HashRef(ZERO), node_hash |-> Unset]

IsBranchType(nt) == nt \in {BranchLTRT, BranchLTRB, BranchLBRT, BranchLBRB}

\* LazyNodeHash::try_as_hash against the arena dbn: Unset when unresolved
\* (a lazy reference that outlived its arena carries the value its cell had)
try_as_hash(ref, dbn) ==
    IF ~ref.lazy \/ ref.hash # Unset THEN ref.hash
    ELSE IF ref.index + 1 <= Len(dbn) THEN dbn[ref.index + 1].node_hash
    ELSE Unset

is_resolved(ref, dbn) == try_as_hash(ref, dbn) # Unset

\* LazyNodeHash::is_zero().unwrap_or(false)
is_zero(ref, dbn) == try_as_hash(ref, dbn) = ZERO

\* Node::get_or_calculate_node_hash of a leaf: [ok, hash]
leaf_node_hash(leaf) ==
    LET keyed(vh) ==
            IF ~vh.ok THEN [ok |-> FALSE, hash |-> Unset]
            ELSE [ok |-> TRUE, hash |-> Hash(Leaf, leaf.node_key, vh.hash)]
    IN IF leaf.node_hash # Unset THEN [ok |-> TRUE, hash |-> leaf.node_hash]
       ELSE keyed(hash_bytes_array(leaf.pre, leaf.flags))

\* Node::get_or_calculate_node_hash of a branch whose children are resolved
branch_node_hash(branch, dbn) ==
    IF branch.node_hash # Unset THEN branch.node_hash
    ELSE Hash(branch.nt, try_as_hash(branch.l, dbn), try_as_hash(branch.r, dbn))

-----------------------------------------------------------------------------
(* Trie engine: lookups *)

\* a get_path that counts the bits of a byte from the highest
get_path_msb_first(node_key, level) ==
    (node_key[(HASH_SIZE - (level \div 8) - 1) + 1] \div Pow2(7 - (level % 8))) % 2 = 1

\* get_path: byte HASH_SIZE - level / 8 - 1 (0-based), bit level % 8
get_path(node_key, level) ==
    (node_key[(HASH_SIZE - (level \div 8) - 1) + 1] \div Pow2(level % 8)) % 2 = 1

\* a get_node_by_hash that never looks into dirty_leafs
get_node_by_hash_store_only(t, d, ref) ==
    IF is_zero(ref, t.dirty_branch_nodes) THEN [err |-> "", node |-> EmptyNode]
    ELSE IF ~ref.lazy
    THEN IF ref.hash \in DOMAIN d
         THEN [err |-> "", node |-> d[ref.hash]]
         ELSE [err |-> "NodeNotFound", node |-> EmptyNode]
    ELSE IF ref.index + 1 <= Len(t.dirty_branch_nodes)
         THEN [err |-> "", node |-> t.dirty_branch_nodes[ref.index + 1]]
         ELSE [err |-> "NodeNotFound", node |-> EmptyNode]

\* ZkTrie::get_node_by_hash: [err, node].  t is the trie, d the store's map.
get_node_by_hash(t, d, ref) ==
    IF is_zero(ref, t.dirty_branch_nodes) THEN [err |-> "", node |-> EmptyNode]
    ELSE IF ~ref.lazy
    THEN IF ref.hash \in DOMAIN t.dirty_leafs
         THEN [err |-> "", node |-> t.dirty_leafs[ref.hash]]
         ELSE IF ref.hash \in DOMAIN d
         THEN [err |-> "", node |-> d[ref.hash]]
         ELSE [err |-> "NodeNotFound", node |-> EmptyNode]
    ELSE IF ref.index + 1 <= Len(t.dirty_branch_nodes)
         THEN [err |-> "", node |-> t.dirty_branch_nodes[ref.index + 1]]
         ELSE [err |-> "NodeNotFound", node |-> EmptyNode]

\* ZkTrie::get_node_by_key, the loop from level i on: [err, node]
RECURSIVE get_node_by_key_from(_, _, _, _, _)
get_node_by_key_from(t, d, node_key, next_hash, i) ==
    LET visit(g) ==
            IF g.err # "" THEN g
            ELSE IF g.node.nt = Empty THEN [err |-> "", node |-> EmptyNode]
            ELSE IF g.node.nt = Leaf
            THEN IF g.node.node_key = node_key THEN [err |-> "", node |-> g.node]
                 ELSE IF i # TRIE_MAX_LEVELS - 1 THEN [err |-> "", node |-> EmptyNode]
                 ELSE [err |-> "NodeNotFound", node |-> EmptyNode]
            ELSE get_node_by_key_from(t, d, node_key,
                     IF get_path(node_key, i) THEN g.node.r ELSE g.node.l, i + 1)
    IN IF i >= TRIE_MAX_LEVELS THEN [err |-> "NodeNotFound", node |-> EmptyNode]
       ELSE visit(get_node_by_hash(t, d, next_hash))

get_node_by_key(t, d, node_key) == get_node_by_key_from(t, d, node_key, t.root, 0)

\* ZkTrie::get with T = the whole preimage list: [err, some, value]
get(t, d, key) ==
    LET decode(g) ==
            IF g.err # "" THEN [err |-> g.err, some |-> FALSE, value |-> NoValue]
            ELSE IF g.node.nt = Empty THEN [err |-> "", some |-> FALSE, value |-> NoValue]
            ELSE IF g.node.nt = Leaf
            THEN [err |-> "", some |-> TRUE,
                  value |-> [pre |-> g.node.pre, flags |-> g.node.flags]]
            ELSE [err |-> "ExpectLeafNode", some |-> FALSE, value |-> NoValue]
    IN decode(get_node_by_key(t, d, KeyHasher_hash(key)))

-----------------------------------------------------------------------------
(* Trie engine: insertion *)

\* HashMap::insert
MapPut(m, k, v) == [x \in (DOMAIN m) \cup {k} |-> IF x = k THEN v ELSE m[x]]
\* HashMap::remove
MapDel(m, k) == [x \in (DOMAIN m) \ {k} |-> m[x]]

\* the result of a recursive step: an error (with the trie as the step left
\* it) or the new reference and whether it is terminal
Fail(e, t) == [err |-> e, hash |-> HashRef(ZERO), term |-> FALSE, t |-> t]
Done(h, term, t) == [err |-> "", hash |-> h, term |-> term, t |-> t]

\* a push_leaf whose level check is the one of add_leaf
RECURSIVE push_leaf_checks_late(_, _, _, _, _)
push_leaf_checks_late(t, d, old_leaf, leaf, level) ==
    LET old_leaf_path == get_path(old_leaf.node_key, level)
        new_leaf_path == get_path(leaf.node_key, level)
        same_side(next) ==
            IF next.err # "" THEN next
            ELSE Done(LazyBranch(Len(next.t.dirty_branch_nodes)), FALSE,
                      [next.t EXCEPT !.dirty_branch_nodes = Append(@,
                          IF old_leaf_path
                          THEN new_branch(BranchLTRB, HashRef(ZERO), next.hash)
                          ELSE new_branch(BranchLBRT, next.hash, HashRef(ZERO)))])
        parted(old_leaf_hash, new_leaf_hash) ==
            IF ~old_leaf_hash.ok \/ ~new_leaf_hash.ok THEN Fail("Hash", t)
            ELSE Done(LazyBranch(Len(t.dirty_branch_nodes)), FALSE,
                      [t EXCEPT
                         !.dirty_leafs = MapPut(@, new_leaf_hash.hash,
                             [leaf EXCEPT !.node_hash = new_leaf_hash.hash]),
                         !.dirty_branch_nodes = Append(@,
                             IF new_leaf_path
                             THEN new_branch(BranchLTRT, HashRef(old_leaf_hash.hash),
                                             HashRef(new_leaf_hash.hash))
                             ELSE new_branch(BranchLTRT, HashRef(new_leaf_hash.hash),
                                             HashRef(old_leaf_hash.hash)))])
    IN IF level >= TRIE_MAX_LEVELS THEN Fail("MaxLevelReached", t)
       ELSE IF old_leaf_path = new_leaf_path
       THEN same_side(push_leaf_checks_late(t, d, old_leaf, leaf, level + 1))
       ELSE parted(leaf_node_hash(old_leaf), leaf_node_hash(leaf))

\* ZkTrie::push_leaf: old_leaf and new_leaf have different node keys
RECURSIVE push_leaf(_, _, _, _, _)
push_leaf(t, d, old_leaf, leaf, level) ==
    LET old_leaf_path == get_path(old_leaf.node_key, level)
        new_leaf_path == get_path(leaf.node_key, level)
        \* both leaves go the same way: a one-sided parent over the deeper branch
        same_side(next) ==
            IF next.err # "" THEN next
            ELSE Done(LazyBranch(Len(next.t.dirty_branch_nodes)), FALSE,
                      [next.t EXCEPT !.dirty_branch_nodes = Append(@,
                          IF old_leaf_path
                          THEN new_branch(BranchLTRB, HashRef(ZERO), next.hash)
                          ELSE new_branch(BranchLBRT, next.hash, HashRef(ZERO)))])
        \* the leaves part here: a branch over the two of them
        parted(old_leaf_hash, new_leaf_hash) ==
            IF ~old_leaf_hash.ok \/ ~new_leaf_hash.ok THEN Fail("Hash", t)
            ELSE Done(LazyBranch(Len(t.dirty_branch_nodes)), FALSE,
                      [t EXCEPT
                         !.dirty_leafs = MapPut(@, new_leaf_hash.hash,
                             [leaf EXCEPT !.node_hash = new_leaf_hash.hash]),
                         !.dirty_branch_nodes = Append(@,
                             IF new_leaf_path
                             THEN new_branch(BranchLTRT, HashRef(old_leaf_hash.hash),
                                             HashRef(new_leaf_hash.hash))
                             ELSE new_branch(BranchLTRT, HashRef(new_leaf_hash.hash),
                                             HashRef(old_leaf_hash.hash)))])
    IN IF level >= TRIE_MAX_LEVELS - 1 THEN Fail("MaxLevelReached", t)
       ELSE IF old_leaf_path = new_leaf_path
       THEN same_side(push_leaf(t, d, old_leaf, leaf, level + 1))
       ELSE parted(leaf_node_hash(old_leaf), leaf_node_hash(leaf))

\* an add_leaf that marks the side it did not descend into
add_leaf_new_type_other_side(current_node_type, went_right, is_terminal) ==
    IF is_terminal THEN current_node_type
    ELSE IF went_right
    THEN (CASE current_node_type = BranchLTRT -> BranchLBRT
            [] current_node_type = BranchLTRB -> BranchLBRB
            [] current_node_type = BranchLBRT -> BranchLBRT
            [] OTHER -> BranchLBRB)
    ELSE (CASE current_node_type = BranchLTRT -> BranchLTRB
            [] current_node_type = BranchLTRB -> BranchLTRB
            [] current_node_type = BranchLBRT -> BranchLBRB
            [] OTHER -> BranchLBRB)

\* an add_leaf that rebuilds the parent with the node type it had
add_leaf_new_type_stale(current_node_type, went_right, is_terminal) ==
    current_node_type

\* the node_type of the rebuilt parent in add_leaf
add_leaf_new_type(current_node_type, went_right, is_terminal) ==
    IF is_terminal THEN current_node_type
    ELSE IF went_right
    THEN (CASE current_node_type = BranchLTRT -> BranchLTRB
            [] current_node_type = BranchLTRB -> BranchLTRB
            [] current_node_type = BranchLBRT -> BranchLBRB
            [] OTHER -> BranchLBRB)
    ELSE (CASE current_node_type = BranchLTRT -> BranchLBRT
            [] current_node_type = BranchLTRB -> BranchLBRB
            [] current_node_type = BranchLBRT -> BranchLBRT
            [] OTHER -> BranchLBRB)

\* ZkTrie::add_leaf
RECURSIVE add_leaf(_, _, _, _, _)
add_leaf(t, d, leaf, curr_node_hash, level) ==
    LET \* NodeType::Empty: the leaf takes the empty slot
        at_empty(node_hash) ==
            IF ~node_hash.ok THEN Fail("Hash", t)
            ELSE Done(HashRef(node_hash.hash), TRUE,
                      [t EXCEPT !.dirty_leafs = MapPut(@, node_hash.hash,
                                    [leaf EXCEPT !.node_hash = node_hash.hash])])
        pushed(p) == IF p.err # "" THEN p ELSE Done(p.hash, FALSE, p.t)
        \* NodeType::Leaf: n is the leaf found, curr its hash
        at_leaf(n, curr, new_leaf_node_hash) ==
            IF curr = Unset THEN Fail("Panic", t)
            ELSE IF ~new_leaf_node_hash.ok THEN Fail("Hash", t)
            ELSE IF curr = new_leaf_node_hash.hash
            THEN Done(HashRef(new_leaf_node_hash.hash), TRUE, t)
            ELSE IF leaf.node_key = n.node_key
            THEN Done(HashRef(new_leaf_node_hash.hash), TRUE,
                      [t EXCEPT
                         !.dirty_leafs = MapPut(@, new_leaf_node_hash.hash,
                             [leaf EXCEPT !.node_hash = new_leaf_node_hash.hash]),
                         !.gc_nodes = @ \cup {HashRef(curr)}])
            ELSE pushed(push_leaf(t, d, n, leaf, level))
        \* a branch n: sub is what the recursion into the child returned
        rebuilt(n, went_right, sub) ==
            IF sub.err # "" THEN sub
            ELSE Done(LazyBranch(Len(sub.t.dirty_branch_nodes)), FALSE,
                      [sub.t EXCEPT
                         !.gc_nodes = @ \cup {curr_node_hash},
                         !.dirty_branch_nodes = Append(@,
                             IF went_right
                             THEN new_branch(add_leaf_new_type(n.nt, went_right, sub.term),
                                             n.l, sub.hash)
                             ELSE new_branch(add_leaf_new_type(n.nt, went_right, sub.term),
                                             sub.hash, n.r))])
        at_branch(n, went_right) ==
            rebuilt(n, went_right,
                    add_leaf(t, d, leaf, IF went_right THEN n.r ELSE n.l, level + 1))
        visit(g) ==
            IF g.err # "" THEN Fail(g.err, t)
            ELSE IF g.node.nt = Empty THEN at_empty(leaf_node_hash(leaf))
            ELSE IF g.node.nt = Leaf
            THEN at_leaf(g.node, try_as_hash(curr_node_hash, t.dirty_branch_nodes),
                         leaf_node_hash(leaf))
            ELSE at_branch(g.node, get_path(leaf.node_key, level))
    IN IF level >= TRIE_MAX_LEVELS THEN Fail("MaxLevelReached", t)
       ELSE visit(get_node_by_hash(t, d, curr_node_hash))

\* a raw_update that records the old root as garbage before it descends
raw_update_marks_first(t, d, key, value) ==
    LET rooted(a) ==
            IF a.err # ""
            THEN [err |-> a.err, t |-> [a.t EXCEPT !.gc_nodes = @ \cup {t.root}]]
            ELSE [err |-> "", t |-> [a.t EXCEPT !.root = a.hash]]
    IN rooted(add_leaf(t, d, new_leaf(KeyHasher_hash(key), value.pre, value.flags, <<>>),
                       t.root, 0))

\* ZkTrie::raw_update: [err, t]
raw_update(t, d, key, value) ==
    LET rooted(a) ==
            IF a.err # "" THEN [err |-> a.err, t |-> a.t]
            ELSE [err |-> "", t |-> [a.t EXCEPT !.root = a.hash]]
    IN rooted(add_leaf(t, d, new_leaf(KeyHasher_hash(key), value.pre, value.flags, <<>>),
                       t.root, 0))

-----------------------------------------------------------------------------
(* Trie engine: deletion *)

\* an is_sibling_terminal that knows only the both-terminal type
is_sibling_terminal_ltrt_only(path, node_type) ==
    node_type = BranchLTRT

\* is_sibling_terminal in delete_node
is_sibling_terminal(path, node_type) ==
    \/ node_type = BranchLTRT
    \/ (path /\ node_type = BranchLTRB)
    \/ (~path /\ node_type = BranchLBRT)

\* a leaf arm that deletes the leaf and records nothing
delete_leaf_unrecorded(t, n, root_hash, node_key) ==
    IF n.node_key # node_key THEN Fail("NodeNotFound", t)
    ELSE Done(HashRef(ZERO), TRUE, t)

\* a leaf arm that records the leaf as garbage before it compares the keys
delete_leaf_marks_first(t, n, root_hash, node_key) ==
    IF n.node_key # node_key
    THEN Fail("NodeNotFound", [t EXCEPT !.gc_nodes = @ \cup {root_hash}])
    ELSE Done(HashRef(ZERO), TRUE, [t EXCEPT !.gc_nodes = @ \cup {root_hash}])

\* the NodeType::Leaf arm of delete_node; n is the leaf root_hash refers to
delete_leaf(t, n, root_hash, node_key) ==
    IF n.node_key # node_key THEN Fail("NodeNotFound", t)
    ELSE Done(HashRef(ZERO), TRUE, [t EXCEPT !.gc_nodes = @ \cup {root_hash}])

\* ZkTrie::delete_node
RECURSIVE delete_node(_, _, _, _, _)
delete_node(t, d, root_hash, node_key, level) ==
    LET \* the parent rebuilt over the two children, or pruned away; t1 is the
        \* trie as the recursion left it
        rebuilt(left_child, right_child, is_left_terminal, is_right_terminal,
                left_hash, right_hash, t1) ==
            IF is_left_terminal /\ is_right_terminal
                  /\ (left_hash = Unset \/ right_hash = Unset)
            THEN Fail("Panic", t1)    \* unwrap_ref of an unresolved reference
            ELSE IF is_left_terminal /\ is_right_terminal /\ left_hash = ZERO
            THEN Done(right_child, TRUE, t1)
            ELSE IF is_left_terminal /\ is_right_terminal /\ right_hash = ZERO
            THEN Done(left_child, TRUE, t1)
            ELSE Done(LazyBranch(Len(t1.dirty_branch_nodes)), FALSE,
                      [t1 EXCEPT
                         !.gc_nodes = @ \cup {root_hash},
                         !.dirty_branch_nodes = Append(@,
                             new_branch(IF is_left_terminal /\ is_right_terminal
                                        THEN BranchLTRT
                                        ELSE IF is_left_terminal THEN BranchLTRB
                                        ELSE IF is_right_terminal THEN BranchLBRT
                                        ELSE BranchLBRB,
                                        left_child, right_child))])
        arranged(left_child, right_child, is_left_terminal, is_right_terminal, t1) ==
            rebuilt(left_child, right_child, is_left_terminal, is_right_terminal,
                    try_as_hash(left_child, t1.dirty_branch_nodes),
                    try_as_hash(right_child, t1.dirty_branch_nodes), t1)
        \* sub is what the recursion into the child on the path returned
        joined(path, sibling_hash, sibling_terminal, sub) ==
            IF sub.err # "" THEN sub
            ELSE IF path
            THEN arranged(sibling_hash, sub.hash, sibling_terminal, sub.term, sub.t)
            ELSE arranged(sub.hash, sibling_hash, sub.term, sibling_terminal, sub.t)
        at_branch(n, path) ==
            joined(path, IF path THEN n.l ELSE n.r, is_sibling_terminal(path, n.nt),
                   delete_node(t, d, IF path THEN n.r ELSE n.l, node_key, level + 1))
        visit(g) ==
            IF g.err # "" THEN Fail(g.err, t)
            ELSE IF g.node.nt = Empty THEN Fail("NodeNotFound", t)
            ELSE IF g.node.nt = Leaf THEN delete_leaf(t, g.node, root_hash, node_key)
            ELSE at_branch(g.node, get_path(node_key, level))
    IN IF level >= TRIE_MAX_LEVELS THEN Fail("MaxLevelReached", t)
       ELSE visit(get_node_by_hash(t, d, root_hash))

\* delete_by_node_key without the NodeNotFound arm: every error is returned
delete_returns_miss(t, d, key) ==
    LET rooted(r) ==
            IF r.err = ""
            THEN [err |-> "", found |-> TRUE, t |-> [r.t EXCEPT !.root = r.hash]]
            ELSE [err |-> r.err, found |-> FALSE, t |-> r.t]
    IN rooted(delete_node(t, d, t.root, KeyHasher_hash(key), 0))

\* ZkTrie::delete / delete_by_node_key: [err, found, t]
delete(t, d, key) ==
    LET rooted(r) ==
            IF r.err = ""
            THEN [err |-> "", found |-> TRUE, t |-> [r.t EXCEPT !.root = r.hash]]
            ELSE IF r.err = "NodeNotFound" THEN [err |-> "", found |-> FALSE, t |-> r.t]
            ELSE [err |-> r.err, found |-> FALSE, t |-> r.t]
    IN rooted(delete_node(t, d, t.root, KeyHasher_hash(key), 0))

-----------------------------------------------------------------------------
(* Node store and commit *)

\* the archived form NodeDb::put_node writes (rkyv serialises each child
\* through unwrap_ref) and get_node reads back: children are plain hashes
Archive(node, dbn) ==
    [node EXCEPT !.l = HashRef(try_as_hash(node.l, dbn)),
                 !.r = HashRef(try_as_hash(node.r, dbn))]

\* NodeDb::put_node on a writable store: the node under its own hash
put_node(d, node, dbn) == MapPut(d, node.node_hash, Archive(node, dbn))

\* an is_dirty that looks at the dirty branches only
is_dirty_branches_only(t) == t.dirty_branch_nodes # <<>>

\* ZkTrie::is_dirty
is_dirty(t) == t.dirty_branch_nodes # <<>> \/ DOMAIN t.dirty_leafs # {}

CFail(e, t, d) == [err |-> e, hash |-> ZERO, t |-> t, d |-> d]
CDone(h, t, d) == [err |-> "", hash |-> h, t |-> t, d |-> d]

\* ZkTrie::resolve_commit: [err, hash, t, d]
RECURSIVE resolve_commit(_, _, _)
resolve_commit(t, d, node_hash) ==
    LET \* the branch n gets its hash h, in its cell and in the store
        stored(n, right, h, resolved) ==
            CDone(h, [right.t EXCEPT !.dirty_branch_nodes = resolved],
                  put_node(right.d, [n EXCEPT !.node_hash = h], resolved))
        hashed(n, right, h) ==
            stored(n, right, h,
                   [right.t.dirty_branch_nodes EXCEPT ![node_hash.index + 1].node_hash = h])
        after_right(n, right) ==
            IF right.err # "" THEN right
            ELSE IF ~is_resolved(n.l, right.t.dirty_branch_nodes)
                    \/ ~is_resolved(n.r, right.t.dirty_branch_nodes)
            THEN CFail("Panic", right.t, right.d)
            ELSE hashed(n, right, branch_node_hash(n, right.t.dirty_branch_nodes))
        after_left(n, left) ==
            IF left.err # "" THEN left
            ELSE after_right(n, resolve_commit(left.t, left.d, n.r))
        visit(g) ==
            IF g.err # "" THEN CFail(g.err, t, d)
            ELSE IF ~IsBranchType(g.node.nt) THEN CFail("Panic", t, d)
            ELSE after_left(g.node, resolve_commit(t, d, g.node.l))
    IN IF ~node_hash.lazy
       THEN IF node_hash.hash \in DOMAIN t.dirty_leafs
            THEN CDone(node_hash.hash,
                       [t EXCEPT !.dirty_leafs = MapDel(@, node_hash.hash)],
                       put_node(d, t.dirty_leafs[node_hash.hash], t.dirty_branch_nodes))
            ELSE CDone(node_hash.hash, t, d)
       ELSE visit(get_node_by_hash(t, d, node_hash))

\* a commit that keeps every candidate, resolved or not
commit_retain_all(gc, arena) == gc

\* gc_nodes.retain(is_resolved) in commit: the cells are read after the walk
commit_retain(gc, arena) ==
    {IF g.lazy /\ g.hash = Unset THEN [g EXCEPT !.hash = try_as_hash(g, arena)] ELSE g :
        g \in {x \in gc : is_resolved(x, arena)}}

\* a commit whose early return on a clean trie also empties gc_nodes
commit_resets_candidates(t, d) ==
    LET cleared(r) ==
            IF r.err # "" THEN [err |-> r.err, t |-> r.t, d |-> r.d]
            ELSE [err |-> "",
                  t |-> [root |-> HashRef(r.hash),
                         dirty_branch_nodes |-> <<>>,
                         dirty_leafs |-> <<>>,
                         gc_nodes |-> commit_retain(r.t.gc_nodes, r.t.dirty_branch_nodes)],
                  d |-> r.d]
    IN IF ~is_dirty(t) THEN [err |-> "", t |-> [t EXCEPT !.gc_nodes = {}], d |-> d]
       ELSE cleared(resolve_commit(t, d, t.root))

\* ZkTrie::commit: [err, t, d]
commit(t, d) ==
    LET cleared(r) ==
            IF r.err # "" THEN [err |-> r.err, t |-> r.t, d |-> r.d]
            ELSE [err |-> "",
                  t |-> [root |-> HashRef(r.hash),
                         dirty_branch_nodes |-> <<>>,
                         dirty_leafs |-> <<>>,
                         gc_nodes |-> commit_retain(r.t.gc_nodes, r.t.dirty_branch_nodes)],
                  d |-> r.d]
    IN IF ~is_dirty(t) THEN [err |-> "", t |-> t, d |-> d]
       ELSE cleared(resolve_commit(t, d, t.root))

\* a resolve_commit that does not walk into the right child of a branch
RECURSIVE resolve_commit_until_skips_right(_, _, _, _)
resolve_commit_until_skips_right(t, d, node_hash, puts) ==
    LET fail(e, t1, d1, p) == [err |-> e, hash |-> ZERO, t |-> t1, d |-> d1, puts |-> p]
        done(h, t1, d1, p) == [err |-> "", hash |-> h, t |-> t1, d |-> d1, puts |-> p]
        \* db.put_node(node)?
        put(h, t1, d1, node, p) ==
            IF p = 0 THEN fail("Db", t1, d1, 0)
            ELSE done(h, t1, put_node(d1, node, t1.dirty_branch_nodes), p - 1)
        hashed(n, right, h) ==
            put(h,
                [right.t EXCEPT !.dirty_branch_nodes[node_hash.index + 1].node_hash = h],
                right.d, [n EXCEPT !.node_hash = h], right.puts)
        after_right(n, right) ==
            IF right.err # "" THEN right
            ELSE IF ~is_resolved(n.l, right.t.dirty_branch_nodes)
                    \/ ~is_resolved(n.r, right.t.dirty_branch_nodes)
            THEN fail("Panic", right.t, right.d, right.puts)
            ELSE hashed(n, right, branch_node_hash(n, right.t.dirty_branch_nodes))
        after_left(n, left) ==
            IF left.err # "" THEN left
            ELSE after_right(n, left)
        visit(g) ==
            IF g.err # "" THEN fail(g.err, t, d, puts)
            ELSE IF ~IsBranchType(g.node.nt) THEN fail("Panic", t, d, puts)
            ELSE after_left(g.node, resolve_commit_until_skips_right(t, d, g.node.l, puts))
    IN IF ~node_hash.lazy
       THEN IF node_hash.hash \in DOMAIN t.dirty_leafs
            THEN \* dirty_leafs.remove comes before the put
                 put(node_hash.hash,
                     [t EXCEPT !.dirty_leafs = MapDel(@, node_hash.hash)],
                     d, t.dirty_leafs[node_hash.hash], puts)
            ELSE done(node_hash.hash, t, d, puts)
       ELSE visit(get_node_by_hash(t, d, node_hash))

\* ZkTrie::resolve_commit over a store that accepts puts more writes and then
\* answers every put with an error (a read-only SharedDb accepts none):
\* [err, hash, t, d, puts]
RECURSIVE resolve_commit_until(_, _, _, _)
resolve_commit_until(t, d, node_hash, puts) ==
    LET fail(e, t1, d1, p) == [err |-> e, hash |-> ZERO, t |-> t1, d |-> d1, puts |-> p]
        done(h, t1, d1, p) == [err |-> "", hash |-> h, t |-> t1, d |-> d1, puts |-> p]
        \* db.put_node(node)?
        put(h, t1, d1, node, p) ==
            IF p = 0 THEN fail("Db", t1, d1, 0)
            ELSE done(h, t1, put_node(d1, node, t1.dirty_branch_nodes), p - 1)
        hashed(n, right, h) ==
            put(h,
                [right.t EXCEPT !.dirty_branch_nodes[node_hash.index + 1].node_hash = h],
                right.d, [n EXCEPT !.node_hash = h], right.puts)
        after_right(n, right) ==
            IF right.err # "" THEN right
            ELSE IF ~is_resolved(n.l, right.t.dirty_branch_nodes)
                    \/ ~is_resolved(n.r, right.t.dirty_branch_nodes)
            THEN fail("Panic", right.t, right.d, right.puts)
            ELSE hashed(n, right, branch_node_hash(n, right.t.dirty_branch_nodes))
        after_left(n, left) ==
            IF left.err # "" THEN left
            ELSE after_right(n, resolve_commit_until(left.t, left.d, n.r, left.puts))
        visit(g) ==
            IF g.err # "" THEN fail(g.err, t, d, puts)
            ELSE IF ~IsBranchType(g.node.nt) THEN fail("Panic", t, d, puts)
            ELSE after_left(g.node, resolve_commit_until(t, d, g.node.l, puts))
    IN IF ~node_hash.lazy
       THEN IF node_hash.hash \in DOMAIN t.dirty_leafs
            THEN \* dirty_leafs.remove comes before the put
                 put(node_hash.hash,
                     [t EXCEPT !.dirty_leafs = MapDel(@, node_hash.hash)],
                     d, t.dirty_leafs[node_hash.hash], puts)
            ELSE done(node_hash.hash, t, d, puts)
       ELSE visit(get_node_by_hash(t, d, node_hash))

\* ZkTrie::commit over such a store: [err, t, d]
commit_until(t, d, puts) ==
    LET cleared(r) ==
            IF r.err # "" THEN [err |-> r.err, t |-> r.t, d |-> r.d]
            ELSE [err |-> "",
                  t |-> [root |-> HashRef(r.hash),
                         dirty_branch_nodes |-> <<>>,
                         dirty_leafs |-> <<>>,
                         gc_nodes |-> commit_retain(r.t.gc_nodes, r.t.dirty_branch_nodes)],
                  d |-> r.d]
    IN IF ~is_dirty(t) THEN [err |-> "", t |-> t, d |-> d]
       ELSE cleared(resolve_commit_until(t, d, t.root, puts))

-----------------------------------------------------------------------------
(* Iteration, proofs, garbage collection *)

\* an iterator that pushes only the right child of a branch
RECURSIVE iter_from_right_only(_, _, _, _)
iter_from_right_only(t, d, stack, out) ==
    LET visit(rest, g) ==
            IF g.err = "" /\ IsBranchType(g.node.nt)
            THEN iter_from_right_only(t, d, rest \o <<g.node.r>>, Append(out, g))
            ELSE iter_from_right_only(t, d, rest, Append(out, g))
    IN IF stack = <<>> THEN out
       ELSE visit(SubSeq(stack, 1, Len(stack) - 1),
                  get_node_by_hash(t, d, stack[Len(stack)]))

\* ZkTrieIterator::next until the stack is empty: the items yielded, each
\* [err, node]; the top of the stack is the last element
RECURSIVE iter_from(_, _, _, _)
iter_from(t, d, stack, out) ==
    LET visit(rest, g) ==
            IF g.err = "" /\ IsBranchType(g.node.nt)
            THEN iter_from(t, d, rest \o <<g.node.l, g.node.r>>, Append(out, g))
            ELSE iter_from(t, d, rest, Append(out, g))
    IN IF stack = <<>> THEN out
       ELSE visit(SubSeq(stack, 1, Len(stack) - 1),
                  get_node_by_hash(t, d, stack[Len(stack)]))

\* ZkTrie::iter, collected
iter(t, d) == iter_from(t, d, <<t.root>>, <<>>)

\* MAGIC_NODE_BYTES as one element of a proof, cut to its first four bytes
\* ("THIS"); no node encoding starts with the byte 84
MAGIC_NODE_BYTES == << <<84, 72, 73, 83>> >>

\* a mark written most significant byte first
mark_be_bytes(compress_flags, len) ==
    LET low == len % 256
        high == ((compress_flags % (2 ^ 24)) + (len \div 256)) % (2 ^ 24)
    IN <<(high \div 65536) % 256, (high \div 256) % 256, high % 256, low>>

\* ((compress_flags << 8) + len as u32).to_le_bytes(), in u32 arithmetic: the
\* shift drops the top byte of the flags, the sum carries out of the low byte
mark_le_bytes(compress_flags, len) ==
    LET low == len % 256
        high == ((compress_flags % (2 ^ 24)) + (len \div 256)) % (2 ^ 24)
    IN <<low, high % 256, (high \div 256) % 256, (high \div 65536) % 256>>

\* a canonical_value that writes the right child before the left one
canonical_value_swapped(node, include_key_preimage, dbn) ==
    IF node.nt = Empty THEN << <<Empty>> >>
    ELSE IF node.nt = Leaf
    THEN << <<Leaf>>, node.node_key, mark_le_bytes(node.flags, Len(node.pre)) >>
            \o node.pre
            \o (IF include_key_preimage /\ node.kpre # <<>>
                THEN << <<Len(node.kpre)>>, node.kpre >>
                ELSE << <<0>> >>)
    ELSE IF ~is_resolved(node.l, dbn) \/ ~is_resolved(node.r, dbn) THEN <<>>
    ELSE << <<node.nt>>, try_as_hash(node.r, dbn), try_as_hash(node.l, dbn) >>

\* Node::canonical_value as the list of its fields, each a byte string; a
\* hash is one field.  An unresolved child makes unwrap_ref panic: <<>>.
canonical_value(node, include_key_preimage, dbn) ==
    IF node.nt = Empty THEN << <<Empty>> >>
    ELSE IF node.nt = Leaf
    THEN << <<Leaf>>, node.node_key, mark_le_bytes(node.flags, Len(node.pre)) >>
            \o node.pre
            \o (IF include_key_preimage /\ node.kpre # <<>>
                THEN << <<Len(node.kpre)>>, node.kpre >>
                ELSE << <<0>> >>)
    ELSE IF ~is_resolved(node.l, dbn) \/ ~is_resolved(node.r, dbn) THEN <<>>
    ELSE << <<node.nt>>, try_as_hash(node.l, dbn), try_as_hash(node.r, dbn) >>

\* ZkTrie::prove, the loop from level i on: [err, proof]
RECURSIVE prove_from(_, _, _, _, _, _)
prove_from(t, d, node_key, next_hash, i, proof) ==
    LET pushed(g, enc) ==
            IF enc = <<>> THEN [err |-> "Panic", proof |-> <<>>]
            ELSE IF g.node.nt \in {Empty, Leaf}
            THEN [err |-> "", proof |-> Append(proof, enc) \o <<MAGIC_NODE_BYTES>>]
            ELSE prove_from(t, d, node_key,
                            IF get_path(node_key, i) THEN g.node.r ELSE g.node.l,
                            i + 1, Append(proof, enc))
        visit(g) ==
            IF g.err # "" THEN [err |-> g.err, proof |-> <<>>]
            ELSE pushed(g, canonical_value(g.node, TRUE, t.dirty_branch_nodes))
    IN IF i >= TRIE_MAX_LEVELS THEN [err |-> "", proof |-> proof \o <<MAGIC_NODE_BYTES>>]
       ELSE visit(get_node_by_hash(t, d, next_hash))

prove(t, d, key) == prove_from(t, d, KeyHasher_hash(key), t.root, 0, <<>>)

\* a gc that drops the unresolved candidates of a dirty trie too
gc_drops_unresolved(t, d, enabled) ==
    IF ~enabled THEN [t |-> t, d |-> d]
    ELSE LET hashes == {try_as_hash(g, t.dirty_branch_nodes) : g \in t.gc_nodes} \ {Unset}
         IN [t |-> [t EXCEPT !.gc_nodes = {}],
             d |-> [x \in (DOMAIN d) \ hashes |-> d[x]]]

\* ZkTrie::gc on a store whose remove works when enabled: [t, d]
gc(t, d, enabled) ==
    IF ~enabled THEN [t |-> t, d |-> d]
    ELSE LET dirty == is_dirty(t)
             hashes == {try_as_hash(g, t.dirty_branch_nodes) : g \in t.gc_nodes} \ {Unset}
         IN [t |-> [t EXCEPT !.gc_nodes =
                        {g \in @ : ~is_resolved(g, t.dirty_branch_nodes) /\ dirty}],
             d |-> [x \in (DOMAIN d) \ hashes |-> d[x]]]

\* a full_gc without the early return on a dirty trie
full_gc_on_dirty(t, d, supported, enabled) ==
    LET \* items: what the iterator yields; bad: the positions of its errors
        purged(items, bad) ==
            IF bad # {}
            THEN [err |-> items[CHOOSE i \in bad : \A j \in bad : i <= j].err,
                  d |-> d, enabled |-> TRUE]
            ELSE [err |-> "",
                  d |-> [x \in (DOMAIN d) \cap {items[i].node.node_hash : i \in 1..Len(items)}
                            |-> d[x]],
                  enabled |-> enabled]
        traversed(items) == purged(items, {i \in 1..Len(items) : items[i].err # ""})
    IN IF ~supported THEN [err |-> "", d |-> d, enabled |-> enabled]
       ELSE traversed(iter(t, d))

\* ZkTrie::full_gc: [err, d, enabled]
full_gc(t, d, supported, enabled) ==
    LET \* items: what the iterator yields; bad: the positions of its errors
        purged(items, bad) ==
            IF bad # {}
            THEN [err |-> items[CHOOSE i \in bad : \A j \in bad : i <= j].err,
                  d |-> d, enabled |-> TRUE]
            ELSE [err |-> "",
                  d |-> [x \in (DOMAIN d) \cap {items[i].node.node_hash : i \in 1..Len(items)}
                            |-> d[x]],
                  enabled |-> enabled]
        traversed(items) == purged(items, {i \in 1..Len(items) : items[i].err # ""})
    IN IF ~supported THEN [err |-> "", d |-> d, enabled |-> enabled]
       ELSE IF is_dirty(t) THEN [err |-> "", d |-> d, enabled |-> enabled]
       ELSE traversed(iter(t, d))

\* ZkTrie::full_gc with a temporary purge store that accepts puts writes and
\* then answers every put with an error: [err, d, enabled]
full_gc_until(t, d, supported, enabled, puts) ==
    LET \* stops: the positions at which the loop returns early, on an item
        \* that is an error or on a put the purge store rejects
        purged(items, bad, stops) ==
            IF stops # {}
            THEN LET first == CHOOSE i \in stops : \A j \in stops : i <= j
                 IN [err |-> IF first \in bad THEN items[first].err ELSE "Other",
                     d |-> d, enabled |-> TRUE]
            ELSE [err |-> "",
                  d |-> [x \in (DOMAIN d) \cap {items[i].node.node_hash : i \in 1..Len(items)}
                            |-> d[x]],
                  enabled |-> enabled]
        stopped(items, bad) ==
            purged(items, bad, bad \cup (IF puts < Len(items) THEN {puts + 1} ELSE {}))
        traversed(items) == stopped(items, {i \in 1..Len(items) : items[i].err # ""})
    IN IF ~supported THEN [err |-> "", d |-> d, enabled |-> enabled]
       ELSE IF is_dirty(t) THEN [err |-> "", d |-> d, enabled |-> enabled]
       ELSE traversed(iter(t, d))

-----------------------------------------------------------------------------
(* Node codec: canonical bytes and their parser *)

\* the bytes canonical_value returns: its fields one after the other
RECURSIVE Flatten(_)
Flatten(fields) ==
    IF fields = <<>> THEN <<>>
    ELSE IF Len(fields) = 1 THEN fields[1]
    ELSE Flatten(SubSeq(fields, 1, Len(fields) \div 2))
            \o Flatten(SubSeq(fields, (Len(fields) \div 2) + 1, Len(fields)))

canonical_value_bytes(node, include_key_preimage) ==
    Flatten(canonical_value(node, include_key_preimage, <<>>))

\* what a read helper returns: an error, or the value and the bytes left
ReadErr(e, bytes) == [err |-> e, val |-> <<>>, rest |-> bytes]
ReadOk(v, rest) == [err |-> "", val |-> v, rest |-> rest]

\* read_u8
read_u8(bytes) ==
    IF bytes = <<>> THEN ReadErr("Eof", bytes)
    ELSE ReadOk(bytes[1], Tail(bytes))

\* read_u32_le; the value is kept as [low, high] with mark = 256 * high + low,
\* so that mark & 255 is low and mark >> 8 is high
read_u32_le(bytes) ==
    IF Len(bytes) < 4 THEN ReadErr("Eof", bytes)
    ELSE ReadOk([low |-> bytes[1],
                 high |-> bytes[2] + 256 * bytes[3] + 65536 * bytes[4]],
                SubSeq(bytes, 5, Len(bytes)))

\* read_bytes::<N>
read_bytes(bytes, n) ==
    IF Len(bytes) < n THEN ReadErr("Eof", bytes)
    ELSE ReadOk(SubSeq(bytes, 1, n), SubSeq(bytes, n + 1, Len(bytes)))

\* a read_hash that does not validate the bytes it read
read_hash_unchecked(bytes) ==
    read_bytes(bytes, HASH_SIZE)

\* read_hash: HASH_SIZE bytes that must be a canonical field element
read_hash(bytes) ==
    LET checked(r) ==
            IF r.err # "" THEN r
            ELSE IF ~new_hash_try_from_bytes_ok(r.val) THEN ReadErr("HashError", bytes)
            ELSE r
    IN checked(read_bytes(bytes, HASH_SIZE))

\* the loop that reads preimage_len value preimages (each [u8; 32] in the
\* source, HASH_SIZE bytes here): the first read_bytes that finds too few
\* bytes ends it, which happens exactly when fewer than n full preimages are
\* left
read_preimages(bytes, n) ==
    IF Len(bytes) < n * HASH_SIZE THEN ReadErr("Eof", bytes)
    ELSE ReadOk([i \in 1..n |-> SubSeq(bytes, (i - 1) * HASH_SIZE + 1, i * HASH_SIZE)],
                SubSeq(bytes, n * HASH_SIZE + 1, Len(bytes)))

ParseErr(e) == [err |-> e, node |-> EmptyNode]
Parsed(node) == [err |-> "", node |-> node]

\* the key preimage after its size byte: present means [u8; 32], whatever
\* the size byte says
parse_key_preimage(bytes, key_preimage_size) ==
    IF key_preimage_size > 0 THEN read_bytes(bytes, HASH_SIZE)
    ELSE ReadOk(<<>>, bytes)

\* the Leaf arm of TryFrom<&[u8]> for Node, after the node type byte
parse_leaf(bytes) ==
    LET built(node_key, mark, pre, kp) ==
            IF kp.err # "" THEN ParseErr(kp.err)
            ELSE Parsed(new_leaf(node_key, pre, mark.high, kp.val))
        sized(node_key, mark, pre, size) ==
            IF size.err # "" THEN ParseErr(size.err)
            ELSE built(node_key, mark, pre.val, parse_key_preimage(size.rest, size.val))
        valued(node_key, mark, pre) ==
            IF pre.err # "" THEN ParseErr(pre.err)
            ELSE sized(node_key, mark, pre, read_u8(pre.rest))
        marked(node_key, mark) ==
            IF mark.err # "" THEN ParseErr(mark.err)
            ELSE valued(node_key, mark.val, read_preimages(mark.rest, mark.val.low))
        keyed(node_key) ==
            IF node_key.err # "" THEN ParseErr(node_key.err)
            ELSE marked(node_key.val, read_u32_le(node_key.rest))
    IN keyed(read_hash(bytes))

\* the branch arm of TryFrom<&[u8]> for Node, after the node type byte
parse_branch(node_type, bytes) ==
    LET right(child_left, child_right) ==
            IF child_right.err # "" THEN ParseErr(child_right.err)
            ELSE Parsed(new_branch(node_type, HashRef(child_left), HashRef(child_right.val)))
        left(child_left) ==
            IF child_left.err # "" THEN ParseErr(child_left.err)
            ELSE right(child_left.val, read_hash(child_left.rest))
    IN left(read_hash(bytes))

\* impl TryFrom<&[u8]> for Node: [err, node]
TryFrom(bytes) ==
    LET typed(raw_node_type) ==
            IF raw_node_type.err # "" THEN ParseErr(raw_node_type.err)
            ELSE IF raw_node_type.val \notin {Leaf, Empty, BranchLTRT, BranchLTRB,
                                              BranchLBRT, BranchLBRB}
            THEN ParseErr("InvalidNodeType")
            ELSE IF IsBranchType(raw_node_type.val)
            THEN parse_branch(raw_node_type.val, raw_node_type.rest)
            ELSE IF raw_node_type.val = Leaf THEN parse_leaf(raw_node_type.rest)
            ELSE Parsed(EmptyNode)
    IN typed(read_u8(bytes))

-----------------------------------------------------------------------------
(* Construction *)

\* ZkTrie::new
NewTrie == [root |-> HashRef(ZERO), dirty_branch_nodes |-> <<>>,
            dirty_leafs |-> <<>>, gc_nodes |-> {}]

\* ZkTrie::new_with_root over a store that holds the root
new_with_root(r) == [NewTrie EXCEPT !.root = HashRef(r)]

\* raw_update for each key that m maps to a value, in the order of keys
RECURSIVE update_all(_, _, _, _)
update_all(t, d, m, keys) ==
    LET rest(r) == IF r.err # "" THEN r ELSE update_all(r.t, d, m, Tail(keys))
    IN IF keys = <<>> THEN [err |-> "", t |-> t]
       ELSE IF m[keys[1]] = NoValue THEN update_all(t, d, m, Tail(keys))
       ELSE rest(raw_update(t, d, keys[1], m[keys[1]]))

Ascending == [i \in 1..Cardinality(Keys) |-> i]

\* a fresh trie over an empty store, given the map m key by key, committed
Fresh(m) == commit(update_all(NewTrie, <<>>, m, Ascending).t, <<>>)

\* the maps a run starts from: nothing, or a store that an earlier session
\* filled with keys 1..4
EmptyMap == [k \in Keys |-> NoValue]
FullMap == [k \in Keys |-> IF k <= 4 THEN Value1 ELSE NoValue]
InitialMaps == {EmptyMap, FullMap}

-----------------------------------------------------------------------------
(* Key-value stores: HashMapDb, the read-only SharedDb, the provided         *)
(* methods of the KVDatabase trait, and the recorder middleware              *)

\* Ok of a store call: the Option's (or the bool's) tag and the item carried
KvOk(some, item) == [err |-> "", some |-> some, item |-> item]

\* Err of a store call
KvErr(e) == [err |-> e, some |-> FALSE, item |-> <<>>]

\* Option<&Item> of a map lookup, cloned
KvOption(m, k) == IF k \in DOMAIN m THEN KvOk(TRUE, m[k]) ELSE KvOk(FALSE, <<>>)

\* a call's outcome: the store after it and what it returned
Out(s, res) == [s |-> s, res |-> res]

\* HashMapDb::from_map
HashMapDb_from_map(gc_enabled, db) ==
    [kind |-> "HashMapDb", gc_enabled |-> gc_enabled, db |-> db]

\* HashMapDb::contains_key
HashMapDb_contains_key(s, k) == Out(s, KvOk(k \in DOMAIN s.db, <<>>))

\* HashMapDb::put: HashMap::insert returns the previous value
HashMapDb_put(s, k, v) == Out([s EXCEPT !.db = MapPut(@, k, v)], KvOption(s.db, k))

\* HashMapDb::put_owned
HashMapDb_put_owned(s, k, v) == Out([s EXCEPT !.db = MapPut(@, k, v)], KvOption(s.db, k))

\* HashMapDb::get
HashMapDb_get(s, k) == Out(s, KvOption(s.db, k))

\* HashMapDb::set_gc_enabled
HashMapDb_set_gc_enabled(s, gc_enabled) ==
    Out([s EXCEPT !.gc_enabled = gc_enabled], KvOk(FALSE, <<>>))

\* a remove that does not look at the policy flag
HashMapDb_remove_always(s, k) == Out([s EXCEPT !.db = MapDel(@, k)], KvOk(FALSE, <<>>))

\* HashMapDb::remove
HashMapDb_remove(s, k) ==
    Out(IF s.gc_enabled THEN [s EXCEPT !.db = MapDel(@, k)] ELSE s, KvOk(FALSE, <<>>))

\* HashMapDb::retain; the predicate f is the set of the pairs it keeps
HashMapDb_retain(s, f) ==
    Out([s EXCEPT !.db = [x \in {y \in DOMAIN s.db : <<y, s.db[y]>> \in f} |-> s.db[x]]],
        KvOk(FALSE, <<>>))

\* HashMap::extend: the pairs are inserted in the iterator's order
RECURSIVE MapExtend(_, _)
MapExtend(m, other) ==
    IF other = <<>> THEN m
    ELSE MapExtend(MapPut(m, Head(other)[1], Head(other)[2]), Tail(other))

\* HashMapDb::extend
HashMapDb_extend(s, other) == Out([s EXCEPT !.db = MapExtend(@, other)], KvOk(FALSE, <<>>))

\* SharedDb::new: the store moves behind an Arc and is read from there
SharedDb_new(s) == [s EXCEPT !.kind = "SharedDb"]

\* a put_owned that reaches the store behind the Arc
SharedDb_put_owned_through(s, k, v) ==
    Out([s EXCEPT !.db = MapPut(@, k, v)], KvOption(s.db, k))

\* SharedDb::put_owned
SharedDb_put_owned(s, k, v) == Out(s, KvErr("ReadOnly"))

\* SharedDb::get
SharedDb_get(s, k) == HashMapDb_get(s, k)

\* UpdateDb::new over a HashMapDb to write to and a SharedDb to fall back on
UpdateDb_new(write, cache) == [kind |-> "UpdateDb", write |-> write, cache |-> cache]

\* UpdateDb::put_owned
UpdateDb_put_owned(s, k, v) ==
    LET put(o) == Out([s EXCEPT !.write = o.s],
                      IF o.res.err # "" THEN KvErr("WriteDb") ELSE o.res)
    IN put(HashMapDb_put_owned(s.write, k, v))

\* an overlay that asks the backing store first
UpdateDb_get_cache_first(s, k) ==
    LET fall(c) == IF c.err # "" THEN KvErr("CacheDb")
                   ELSE IF c.some THEN c
                   ELSE HashMapDb_get(s.write, k).res
    IN Out(s, fall(SharedDb_get(s.cache, k).res))

\* UpdateDb::get
UpdateDb_get(s, k) ==
    LET fall(c) == IF c.err # "" THEN KvErr("CacheDb") ELSE c
        first(w) == IF w.err # "" THEN KvErr("WriteDb")
                    ELSE IF w.some THEN w
                    ELSE fall(SharedDb_get(s.cache, k).res)
    IN Out(s, first(HashMapDb_get(s.write, k).res))

\* the required methods, by the implementor; every write to a SharedDb or to
\* an UpdateDb is a put_owned
Db_put_owned(s, k, v) ==
    CASE s.kind = "HashMapDb" -> HashMapDb_put_owned(s, k, v)
      [] s.kind = "SharedDb" -> SharedDb_put_owned(s, k, v)
      [] s.kind = "UpdateDb" -> UpdateDb_put_owned(s, k, v)

Db_get(s, k) ==
    CASE s.kind = "HashMapDb" -> HashMapDb_get(s, k)
      [] s.kind = "SharedDb" -> SharedDb_get(s, k)
      [] s.kind = "UpdateDb" -> UpdateDb_get(s, k)

\* KVDatabase::contains_key as the trait provides it
KVDatabase_contains_key(s, k) ==
    LET got(r) == IF r.err # "" THEN r ELSE KvOk(r.some, <<>>)
    IN Out(s, got(Db_get(s, k).res))

\* KVDatabase::is_gc_supported; the trait provides false
is_gc_supported(s) == s.kind = "HashMapDb"

\* KVDatabase::gc_enabled; the trait provides false
Db_gc_enabled(s) == s.kind = "HashMapDb" /\ s.gc_enabled

\* KVDatabase::remove as the trait provides it
KVDatabase_remove(s, k) == Out(s, KvOk(FALSE, <<>>))

\* KVDatabase::retain as the trait provides it
KVDatabase_retain(s, f) == Out(s, KvOk(FALSE, <<>>))

\* KVDatabase::extend as the trait provides it: put_owned pair by pair, the
\* first error ends the call
RECURSIVE KVDatabase_extend(_, _)
KVDatabase_extend(s, other) ==
    IF other = <<>> THEN Out(s, KvOk(FALSE, <<>>))
    ELSE LET next(o) == IF o.res.err # "" THEN Out(o.s, KvErr(o.res.err))
                        ELSE KVDatabase_extend(o.s, Tail(other))
         IN next(Db_put_owned(s, Head(other)[1], Head(other)[2]))

\* KeyHasher::hash as the trait provides it, NoCacheHasher's: H::hash_bytes, whose
\* one error is a key of more than HASH_SIZE bytes
NoCacheHasher_hash(key) ==
    IF Len(key) > HASH_SIZE THEN KvErr("Hash") ELSE KvOk(TRUE, hash_bytes(key))

\* hash.try_into::<&[u8; 32]>: the stored bytes have the size of a ZkHash,
\* which here is HASH_SIZE bytes as given or a term Hash built from two of them
IsZkHash(bytes) ==
    \/ Len(bytes) = HASH_SIZE
    \/ Len(bytes) = 2 * HASH_SIZE + 2 /\ bytes[2] = HASH_SIZE

\* a cached hasher that remembers a failed hash as the zero hash
SyncCachedKeyHasher_hash_keeps_failure(cache, key) ==
    LET miss(h) == IF h.err # "" THEN Out(HashMapDb_put(cache, key, ZERO).s, h)
                   ELSE Out(HashMapDb_put(cache, key, h.item).s, h)
        hit(g) == IF g.some THEN Out(cache, KvOk(TRUE, g.item))
                  ELSE miss(NoCacheHasher_hash(key))
    IN hit(HashMapDb_get(cache, key).res)

\* SyncCachedKeyHasher::hash, the mutex guard held from the first line to the
\* return: the cached hash if the db holds one of HASH_SIZE bytes, else
\* H::hash_bytes, put into the db when it succeeds
SyncCachedKeyHasher_hash(cache, key) ==
    LET miss(h) == IF h.err # "" THEN Out(cache, h)
                   ELSE Out(HashMapDb_put(cache, key, h.item).s, h)
        hit(g) == IF g.some
                  THEN Out(cache, IF ~IsZkHash(g.item) THEN KvErr("InvalidHash")
                                  ELSE KvOk(TRUE, g.item))
                  ELSE miss(NoCacheHasher_hash(key))
    IN hit(HashMapDb_get(cache, key).res)

\* RefCachedKeyHasher::hash: the same steps, the db borrowed for the get and
\* again for the put
RefCachedKeyHasher_hash(cache, key) ==
    LET miss(h) == IF h.err # "" THEN Out(cache, h)
                   ELSE Out(HashMapDb_put(cache, key, h.item).s, h)
        hit(g) == IF g.some
                  THEN Out(cache, IF ~IsZkHash(g.item) THEN KvErr("InvalidHash")
                                  ELSE KvOk(TRUE, g.item))
                  ELSE miss(NoCacheHasher_hash(key))
    IN hit(HashMapDb_get(cache, key).res)

\* a call on a store: the implementor's method, or the trait's where the
\* implementor has none. arg is the value, the flag, the predicate or the
\* pairs of the call
Db_call(s, op, k, arg) ==
    IF s.kind = "HashMapDb" THEN
        CASE op = "contains_key" -> HashMapDb_contains_key(s, k)
          [] op = "put" -> HashMapDb_put(s, k, arg)
          [] op = "put_owned" -> HashMapDb_put_owned(s, k, arg)
          [] op = "get" -> HashMapDb_get(s, k)
          [] op = "set_gc_enabled" -> HashMapDb_set_gc_enabled(s, arg)
          [] op = "remove" -> HashMapDb_remove(s, k)
          [] op = "retain" -> HashMapDb_retain(s, arg)
          [] op = "extend" -> HashMapDb_extend(s, arg)
    ELSE
        CASE op = "contains_key" -> KVDatabase_contains_key(s, k)
          [] op = "put" -> Db_put_owned(s, k, arg)
          [] op = "put_owned" -> Db_put_owned(s, k, arg)
          [] op = "get" -> Db_get(s, k)
          [] op = "set_gc_enabled" -> Out(s, KvOk(FALSE, <<>>))
          [] op = "remove" -> KVDatabase_remove(s, k)
          [] op = "retain" -> KVDatabase_retain(s, arg)
          [] op = "extend" -> KVDatabase_extend(s, arg)

\* what a call on the recorder leaves: the wrapped store, the buffer, the result
Rec(o, read_items) == [inner |-> o.s, read_items |-> read_items, res |-> o.res]

\* a recorder whose get records the misses too, as empty items
RecorderMiddleware_get_all(inner, read_items, k) ==
    Rec(Db_get(inner, k), MapPut(read_items, k, Db_get(inner, k).res.item))

\* RecorderMiddleware::get
RecorderMiddleware_get(inner, read_items, k) ==
    LET record(o) ==
            Rec(o, IF o.res.err = "" /\ o.res.some THEN MapPut(read_items, k, o.res.item)
                   ELSE read_items)
    IN record(Db_get(inner, k))

\* the methods of RecorderMiddleware: get records, the others hand the call to
\* the wrapped store
RecorderMiddleware_call(inner, read_items, op, k, arg) ==
    IF op = "get" THEN RecorderMiddleware_get(inner, read_items, k)
    ELSE Rec(Db_call(inner, op, k, arg), read_items)

\* RecorderMiddleware::take_read_items: mem::take leaves the default, an empty map
take_read_items(read_items) == [taken |-> read_items, read_items |-> <<>>]

-----------------------------------------------------------------------------
(* The state machine: one trie over one node store *)

VARIABLES
    root,                 \* ZkTrie.root
    dirty_branch_nodes,   \* ZkTrie.dirty_branch_nodes
    dirty_leafs,          \* ZkTrie.dirty_leafs
    gc_nodes,             \* ZkTrie.gc_nodes
    db,                   \* the store's map: node hash -> archived node
    gc_supported,         \* KVDatabase::is_gc_supported of the store
    gc_enabled,           \* KVDatabase::gc_enabled of the store
    ret,                  \* the last call and what it returned
    kv,                   \* the map the successful calls induce: key -> value
    steps,                \* calls made so far
    stage,                \* codec runs: where the run is
    enc_node,             \* codec runs: the node given to canonical_value
    enc_bytes,            \* codec runs: the byte string in hand
    dec,                  \* codec runs: what the parser returned
    inner,                \* store runs: RecorderMiddleware.inner
    read_items,           \* store runs: RecorderMiddleware.read_items
    direct,               \* store runs: the same store, called with no recorder
    calls,                \* store runs: the calls made and what they returned
    pc,                   \* clone runs: where each thread is in its call
    mutex                 \* clone runs: the thread holding the buffer's mutex, or 0

trie_vars == <<root, dirty_branch_nodes, dirty_leafs, gc_nodes, db, gc_supported,
               gc_enabled, ret, kv, steps>>

codec_vars == <<stage, enc_node, enc_bytes, dec>>

store_vars == <<inner, read_items, direct, calls>>

clone_vars == <<pc, mutex>>

vars == <<root, dirty_branch_nodes, dirty_leafs, gc_nodes, db, gc_supported,
          gc_enabled, ret, kv, steps, stage, enc_node, enc_bytes, dec,
          inner, read_items, direct, calls, pc, mutex>>

Trie == [root |-> root, dirty_branch_nodes |-> dirty_branch_nodes,
         dirty_leafs |-> dirty_leafs, gc_nodes |-> gc_nodes]

SetTrie(t) ==
    /\ root' = t.root
    /\ dirty_branch_nodes' = t.dirty_branch_nodes
    /\ dirty_leafs' = t.dirty_leafs
    /\ gc_nodes' = t.gc_nodes

SetTrie0(t) ==
    /\ root = t.root
    /\ dirty_branch_nodes = t.dirty_branch_nodes
    /\ dirty_leafs = t.dirty_leafs
    /\ gc_nodes = t.gc_nodes

Ret(op, key, err, found) == [op |-> op, key |-> key, err |-> err, found |-> found]

\* a panic aborts the process
Running == steps < MaxOps /\ ret.err # "Panic"

\* no codec run is under way
CodecOff ==
    /\ stage = "off"
    /\ enc_node = EmptyNode
    /\ enc_bytes = <<>>
    /\ dec = ParseErr("")

\* no store run is under way
StoreOff ==
    /\ inner = HashMapDb_from_map(FALSE, <<>>)
    /\ read_items = <<>>
    /\ direct = inner
    /\ calls = <<>>
    /\ pc = <<>>
    /\ mutex = 0

\* ZkTrie::new over an empty store, or ZkTrie::new_with_root over the store
\* and root a committed trie left behind
Init ==
    /\ CodecOff
    /\ StoreOff
    /\ \E m \in InitialMaps : \E f \in {Fresh(m)} :
          /\ SetTrie0(new_with_root(f.t.root.hash))
          /\ db = f.d
          /\ kv = m
    /\ gc_supported \in BOOLEAN
    /\ gc_enabled \in {b \in BOOLEAN : b => gc_supported}
    /\ ret = Ret("new", 0, "", FALSE)
    /\ steps = 0

\* a raw_update that writes the new leaf to the store at once
RawUpdateEager(k, v) ==
    /\ Running
    /\ \E r \in {raw_update(Trie, db, k, v)} :
          /\ SetTrie(r.t)
          /\ ret' = Ret("raw_update", k, r.err, FALSE)
          /\ kv' = IF r.err = "" THEN [kv EXCEPT ![k] = v] ELSE kv
          /\ db' = [x \in (DOMAIN db) \cup (DOMAIN r.t.dirty_leafs) |->
                       IF x \in DOMAIN r.t.dirty_leafs THEN r.t.dirty_leafs[x] ELSE db[x]]
    /\ steps' = steps + 1
    /\ UNCHANGED <<gc_supported, gc_enabled>>
    /\ UNCHANGED <<codec_vars, store_vars, clone_vars>>

\* ZkTrie::raw_update
RawUpdate(k, v) ==
    /\ Running
    /\ \E r \in {raw_update(Trie, db, k, v)} :
          /\ SetTrie(r.t)
          /\ ret' = Ret("raw_update", k, r.err, FALSE)
          /\ kv' = IF r.err = "" THEN [kv EXCEPT ![k] = v] ELSE kv
    /\ steps' = steps + 1
    /\ UNCHANGED <<db, gc_supported, gc_enabled>>
    /\ UNCHANGED <<codec_vars, store_vars, clone_vars>>

\* ZkTrie::delete
Delete(k) ==
    /\ Running
    /\ \E r \in {delete(Trie, db, k)} :
          /\ SetTrie(r.t)
          /\ ret' = Ret("delete", k, r.err, r.found)
          /\ kv' = IF r.err = "" /\ r.found THEN [kv EXCEPT ![k] = NoValue] ELSE kv
    /\ steps' = steps + 1
    /\ UNCHANGED <<db, gc_supported, gc_enabled>>
    /\ UNCHANGED <<codec_vars, store_vars, clone_vars>>

\* ZkTrie::commit
Commit ==
    /\ Running
    /\ \E r \in {commit(Trie, db)} :
          /\ SetTrie(r.t)
          /\ db' = r.d
          /\ ret' = Ret("commit", 0, r.err, FALSE)
    /\ steps' = steps + 1
    /\ UNCHANGED <<gc_supported, gc_enabled, kv>>
    /\ UNCHANGED <<codec_vars, store_vars, clone_vars>>

\* ZkTrie::gc
Gc ==
    /\ Running
    /\ \E r \in {gc(Trie, db, gc_enabled)} :
          /\ SetTrie(r.t)
          /\ db' = r.d
          /\ ret' = Ret("gc", 0, "", FALSE)
    /\ steps' = steps + 1
    /\ UNCHANGED <<gc_supported, gc_enabled, kv>>
    /\ UNCHANGED <<codec_vars, store_vars, clone_vars>>

\* ZkTrie::full_gc with a fresh temporary purge store
FullGc ==
    /\ Running
    /\ \E r \in {full_gc(Trie, db, gc_supported, gc_enabled)} :
          /\ db' = r.d
          /\ gc_enabled' = r.enabled
          /\ ret' = Ret("full_gc", 0, r.err, FALSE)
    /\ steps' = steps + 1
    /\ UNCHANGED <<root, dirty_branch_nodes, dirty_leafs, gc_nodes, gc_supported, kv>>
    /\ UNCHANGED <<codec_vars, store_vars, clone_vars>>

\* the (key, value) pairs the runs pass to raw_update; one of them fails to hash
UpdateInputs == (Keys \X Values) \cup {<<2, ValueBad>>}

Next ==
    \/ \E in \in UpdateInputs : RawUpdate(in[1], in[2])
    \/ \E k \in Keys : Delete(k)
    \/ Commit
    \/ Gc
    \/ FullGc

Spec == Init /\ [][Next]_vars

\* the runs that never call the incremental gc
NextNoGc ==
    \/ \E in \in UpdateInputs : RawUpdate(in[1], in[2])
    \/ \E k \in Keys : Delete(k)
    \/ Commit
    \/ FullGc

SpecNoGc == Init /\ [][NextNoGc]_vars

\* the runs that only call raw_update and commit on a trie that starts empty
InitEmpty == Init /\ kv = EmptyMap

NextUpdates ==
    \/ \E in \in UpdateInputs : RawUpdate(in[1], in[2])
    \/ Commit

SpecUpdates == InitEmpty /\ [][NextUpdates]_vars

\* writes a failing store accepts before it rejects the rest of a commit
MaxPuts == 2

\* ZkTrie::commit over a store that rejects a write part-way
CommitUntil(puts) ==
    /\ Running
    /\ \E r \in {commit_until(Trie, db, puts)} :
          /\ SetTrie(r.t)
          /\ db' = r.d
          /\ ret' = Ret("commit", 0, r.err, FALSE)
    /\ steps' = steps + 1
    /\ UNCHANGED <<gc_supported, gc_enabled, kv>>
    /\ UNCHANGED <<codec_vars, store_vars, clone_vars>>

\* the runs whose store may reject the writes of a commit
NextFailedCommit ==
    \/ \E in \in UpdateInputs : RawUpdate(in[1], in[2])
    \/ \E k \in Keys : Delete(k)
    \/ Commit
    \/ \E puts \in 0..MaxPuts : CommitUntil(puts)

SpecFailedCommit == Init /\ [][NextFailedCommit]_vars

\* ZkTrie::full_gc with a temporary purge store that rejects a write
FullGcUntil(puts) ==
    /\ Running
    /\ \E r \in {full_gc_until(Trie, db, gc_supported, gc_enabled, puts)} :
          /\ db' = r.d
          /\ gc_enabled' = r.enabled
          /\ ret' = Ret("full_gc", 0, r.err, FALSE)
    /\ steps' = steps + 1
    /\ UNCHANGED <<root, dirty_branch_nodes, dirty_leafs, gc_nodes, gc_supported, kv>>
    /\ UNCHANGED <<codec_vars, store_vars, clone_vars>>

\* the runs whose purge store may reject the writes of a full_gc
NextFullGc ==
    \/ \E in \in UpdateInputs : RawUpdate(in[1], in[2])
    \/ Commit
    \/ FullGc
    \/ \E puts \in 0..MaxPuts : FullGcUntil(puts)

SpecFullGc == Init /\ [][NextFullGc]_vars

-----------------------------------------------------------------------------
(* The codec runs: a node is encoded, the bytes may be cut short or          *)
(* overwritten on the way, and the parser reads what arrives                 *)

\* a [u8; 32] (HASH_SIZE bytes here) whose bytes are all b
Filled(b) == [i \in 1..HASH_SIZE |-> b]

\* n value preimages, all different while n < 256
Preimages(n) == [i \in 1..n |-> Filled(i % 256)]

\* child hashes and node keys of the encoded nodes: canonical field elements
CodecHashes == {ZERO, KeyHasher_hash(2), KeyHasher_hash(5)}

\* numbers of value preimages: the boundaries of the flag bits and of the
\* count byte
PreimageCounts == {1, 2, 25, 255, 256}

\* compression flags: none, low bits, the highest bit the mark holds, the
\* highest bit hash_bytes_array looks at
CodecFlags == {0, 1, 8, 2 ^ 23, 2 ^ 24, 2 ^ 24 + 1}

CodecBranches ==
    {new_branch(nt, HashRef(l), HashRef(r)) :
        nt \in {BranchLTRT, BranchLTRB, BranchLBRT, BranchLBRB},
        l \in CodecHashes, r \in CodecHashes}

CodecLeaves ==
    {new_leaf(node_key, Preimages(n), flags, kp) :
        node_key \in CodecHashes \ {ZERO}, n \in PreimageCounts, flags \in CodecFlags,
        kp \in {<<>>, Filled(7)}}

CodecNodes == {EmptyNode} \cup CodecBranches \cup CodecLeaves

\* the trie of a codec run: new, over an empty store, never touched
InitCodec ==
    /\ StoreOff
    /\ SetTrie0(NewTrie)
    /\ db = <<>>
    /\ kv = EmptyMap
    /\ gc_supported = FALSE
    /\ gc_enabled = FALSE
    /\ ret = Ret("new", 0, "", FALSE)
    /\ steps = 0
    /\ stage = "node"
    /\ enc_node \in CodecNodes
    /\ enc_bytes = <<>>
    /\ dec = ParseErr("")

\* Node::canonical_value
Encode(include_key_preimage) ==
    /\ stage = "node"
    /\ enc_bytes' = canonical_value_bytes(enc_node, include_key_preimage)
    /\ stage' = IF include_key_preimage THEN "encoded" ELSE "encoded_bare"
    /\ UNCHANGED <<enc_node, dec>>
    /\ UNCHANGED <<trie_vars, store_vars, clone_vars>>

\* the bytes arrive cut after their first n bytes
Truncate(n) ==
    /\ stage \in {"encoded", "encoded_bare", "damaged"}
    /\ n < Len(enc_bytes)
    /\ enc_bytes' = SubSeq(enc_bytes, 1, n)
    /\ stage' = "damaged"
    /\ UNCHANGED <<enc_node, dec>>
    /\ UNCHANGED <<trie_vars, store_vars, clone_vars>>

\* the bytes arrive with byte i (1-based) replaced by b
Overwrite(i, b) ==
    /\ stage \in {"encoded", "encoded_bare"}
    /\ i \in 1..Len(enc_bytes)
    /\ enc_bytes[i] # b
    /\ enc_bytes' = [enc_bytes EXCEPT ![i] = b]
    /\ stage' = "damaged"
    /\ UNCHANGED <<enc_node, dec>>
    /\ UNCHANGED <<trie_vars, store_vars, clone_vars>>

\* Node::try_from(bytes)
Parse ==
    /\ stage \in {"encoded", "encoded_bare", "damaged"}
    /\ dec' = TryFrom(enc_bytes)
    /\ stage' = CASE stage = "encoded" -> "parsed"
                   [] stage = "encoded_bare" -> "parsed_bare"
                   [] OTHER -> "parsed_damaged"
    /\ UNCHANGED <<enc_node, enc_bytes>>
    /\ UNCHANGED <<trie_vars, store_vars, clone_vars>>

\* the places a byte is overwritten at: the node type, the first byte of each
\* of the two hashes of a branch (the second is the low byte of a leaf's
\* mark), the last byte (the size byte of a leaf without key preimage) and
\* the size byte before a key preimage; and the bytes written there
OverwriteAt == {1, 2, 2 + HASH_SIZE}
OverwriteWith == {3, 4, 5, 9, 10, 84, 255}

NextCodec ==
    \/ \E include_key_preimage \in BOOLEAN : Encode(include_key_preimage)
    \/ \E n \in 0..(4 * HASH_SIZE + 8) : Truncate(n)
    \/ \E i \in OverwriteAt \cup {Len(enc_bytes), Len(enc_bytes) - HASH_SIZE},
          b \in OverwriteWith : Overwrite(i, b)
    \/ Parse

SpecCodec == InitCodec /\ [][NextCodec]_vars

-----------------------------------------------------------------------------
(* The store runs: calls go to a RecorderMiddleware over a store and, side   *)
(* by side, to the same store with nothing around it                         *)

\* keys and values of the runs, as byte strings
StoreKeys == {<<1>>, <<2>>}
StoreValues == {<<7>>, <<8>>}

\* the maps the stores start from: empty, or holding every key
InitialStoreMaps == {<<>>, [k \in StoreKeys |-> <<7>>]}

\* HashMapDb::from_map with either policy, alone or behind SharedDb::new
InitialStores ==
    {HashMapDb_from_map(g, m) : g \in BOOLEAN, m \in InitialStoreMaps}
    \cup {SharedDb_new(HashMapDb_from_map(g, m)) : g \in BOOLEAN, m \in InitialStoreMaps}
    \cup {UpdateDb_new(HashMapDb_from_map(TRUE, w), SharedDb_new(HashMapDb_from_map(TRUE, m))) :
            w \in {<<>>, [k \in {<<1>>} |-> <<8>>]}, m \in InitialStoreMaps}

\* predicates given to retain: keep all, keep none, keep one key, keep one value
RetainPredicates ==
    {StoreKeys \X StoreValues, {}, {<<1>>} \X StoreValues, StoreKeys \X {<<8>>}}

\* iterators given to extend: nothing, one pair, the same key twice
ExtendItems ==
    {<<>>, << <<<<1>>, <<8>>>> >>, << <<<<2>>, <<7>>>>, <<<<2>>, <<8>>>> >>}

\* the trie and the codec stay as constructed
InitStore ==
    /\ CodecOff
    /\ SetTrie0(NewTrie)
    /\ db = <<>>
    /\ kv = EmptyMap
    /\ gc_supported = FALSE
    /\ gc_enabled = FALSE
    /\ ret = Ret("new", 0, "", FALSE)
    /\ steps = 0
    /\ inner \in InitialStores
    /\ direct = inner
    /\ read_items = <<>>
    /\ calls = <<>>
    /\ pc = <<>>
    /\ mutex = 0

\* a run makes MaxCalls calls at most
CanCall == Len(calls) < MaxCalls

\* one call, to the recorder and to the store alone
Issue(op, k, arg) ==
    /\ \E w \in {RecorderMiddleware_call(inner, read_items, op, k, arg)},
          d \in {Db_call(direct, op, k, arg)} :
          /\ inner' = w.inner
          /\ read_items' = w.read_items
          /\ direct' = d.s
          /\ calls' = Append(calls, [op |-> op, k |-> k, res |-> w.res, direct |-> d.res])
    /\ UNCHANGED <<trie_vars, codec_vars, clone_vars>>

StoreContainsKey(k) == CanCall /\ Issue("contains_key", k, <<>>)

StorePut(k, v) == CanCall /\ Issue("put", k, v)

StorePutOwned(k, v) == CanCall /\ Issue("put_owned", k, v)

StoreGet(k) == CanCall /\ Issue("get", k, <<>>)

StoreSetGcEnabled(b) == CanCall /\ Issue("set_gc_enabled", <<>>, b)

StoreRemove(k) == CanCall /\ Issue("remove", k, <<>>)

StoreRetain(f) == CanCall /\ Issue("retain", <<>>, f)

StoreExtend(other) == CanCall /\ Issue("extend", <<>>, other)

\* RecorderMiddleware::take_read_items
TakeReadItems ==
    /\ CanCall
    /\ \E t \in {take_read_items(read_items)} :
          /\ read_items' = t.read_items
          /\ calls' = Append(calls, [op |-> "take_read_items", k |-> <<>>,
                                     res |-> KvOk(TRUE, t.taken),
                                     direct |-> KvOk(TRUE, t.taken)])
    /\ UNCHANGED <<inner, direct>>
    /\ UNCHANGED <<trie_vars, codec_vars, clone_vars>>

NextStore ==
    \/ \E k \in StoreKeys : StoreContainsKey(k)
    \/ \E k \in StoreKeys, v \in StoreValues : StorePut(k, v)
    \/ \E k \in StoreKeys, v \in StoreValues : StorePutOwned(k, v)
    \/ \E k \in StoreKeys : StoreGet(k)
    \/ \E b \in BOOLEAN : StoreSetGcEnabled(b)
    \/ \E k \in StoreKeys : StoreRemove(k)
    \/ \E f \in RetainPredicates : StoreRetain(f)
    \/ \E other \in ExtendItems : StoreExtend(other)
    \/ TakeReadItems

SpecStore == InitStore /\ [][NextStore]_vars

-----------------------------------------------------------------------------
(* The clone runs: clones of one RecorderMiddleware over a shared read-only  *)
(* store, each on its own thread, with one buffer behind one mutex           *)

\* the threads, one clone each
Clones == {1, 2}

\* a clone between calls
Idle == [at |-> "idle", k |-> <<>>, item |-> <<>>, taken |-> <<>>]

\* the stores the clones read: every set of keys held
CloneStores ==
    {SharedDb_new(HashMapDb_from_map(FALSE, [k \in K |-> <<7>>])) : K \in SUBSET StoreKeys}

InitClones ==
    /\ CodecOff
    /\ SetTrie0(NewTrie)
    /\ db = <<>>
    /\ kv = EmptyMap
    /\ gc_supported = FALSE
    /\ gc_enabled = FALSE
    /\ ret = Ret("new", 0, "", FALSE)
    /\ steps = 0
    /\ inner \in CloneStores
    /\ direct = inner
    /\ read_items = <<>>
    /\ calls = <<>>
    /\ pc = [t \in Clones |-> Idle]
    /\ mutex = 0

\* a run makes MaxCalls calls at most, those under way included
CanStart(t) ==
    /\ pc[t].at = "idle"
    /\ Len(calls) + Cardinality({u \in Clones : pc[u].at # "idle"}) < MaxCalls

\* Mutex::lock that does not wait for the holder
Acquire_unchecked(t) == mutex' = t

\* Mutex::lock: the thread waits until no thread holds the mutex
Acquire(t) == mutex = 0 /\ mutex' = t

\* RecorderMiddleware::get, up to the lock: self.inner.get; a miss returns
CloneGet(t, k) ==
    /\ CanStart(t)
    /\ \E o \in {Db_get(inner, k)} :
          IF o.res.err = "" /\ o.res.some
          THEN /\ pc' = [pc EXCEPT ![t] = [at |-> "get_lock", k |-> k,
                                           item |-> o.res.item, taken |-> <<>>]]
               /\ UNCHANGED calls
          ELSE /\ calls' = Append(calls, [op |-> "get", k |-> k, res |-> o.res,
                                          direct |-> o.res])
               /\ UNCHANGED pc
    /\ UNCHANGED <<inner, direct, read_items, mutex>>
    /\ UNCHANGED <<trie_vars, codec_vars>>

\* RecorderMiddleware::get: self.read_items.lock()
CloneGetLock(t) ==
    /\ pc[t].at = "get_lock"
    /\ Acquire(t)
    /\ pc' = [pc EXCEPT ![t].at = "get_insert"]
    /\ UNCHANGED <<inner, direct, read_items, calls>>
    /\ UNCHANGED <<trie_vars, codec_vars>>

\* RecorderMiddleware::get: insert under the guard, which drops at the end of
\* the statement
CloneGetInsert(t) ==
    /\ pc[t].at = "get_insert"
    /\ read_items' = MapPut(read_items, pc[t].k, pc[t].item)
    /\ mutex' = 0
    /\ calls' = Append(calls, [op |-> "get", k |-> pc[t].k,
                               res |-> KvOk(TRUE, pc[t].item),
                               direct |-> KvOk(TRUE, pc[t].item)])
    /\ pc' = [pc EXCEPT ![t] = Idle]
    /\ UNCHANGED <<inner, direct>>
    /\ UNCHANGED <<trie_vars, codec_vars>>

\* RecorderMiddleware::take_read_items: self.read_items.lock()
CloneTakeLock(t) ==
    /\ CanStart(t)
    /\ Acquire(t)
    /\ pc' = [pc EXCEPT ![t].at = "take_read"]
    /\ UNCHANGED <<inner, direct, read_items, calls>>
    /\ UNCHANGED <<trie_vars, codec_vars>>

\* mem::take, first half: the map is moved out
CloneTakeRead(t) ==
    /\ pc[t].at = "take_read"
    /\ pc' = [pc EXCEPT ![t].at = "take_write", ![t].taken = read_items]
    /\ UNCHANGED <<inner, direct, read_items, calls, mutex>>
    /\ UNCHANGED <<trie_vars, codec_vars>>

\* mem::take, second half: the default is written in its place; the guard drops
CloneTakeWrite(t) ==
    /\ pc[t].at = "take_write"
    /\ read_items' = take_read_items(read_items).read_items
    /\ mutex' = 0
    /\ calls' = Append(calls, [op |-> "take_read_items", k |-> <<>>,
                               res |-> KvOk(TRUE, pc[t].taken),
                               direct |-> KvOk(TRUE, pc[t].taken)])
    /\ pc' = [pc EXCEPT ![t] = Idle]
    /\ UNCHANGED <<inner, direct>>
    /\ UNCHANGED <<trie_vars, codec_vars>>

NextClones ==
    \/ \E t \in Clones, k \in StoreKeys : CloneGet(t, k)
    \/ \E t \in Clones : CloneGetLock(t)
    \/ \E t \in Clones : CloneGetInsert(t)
    \/ \E t \in Clones : CloneTakeLock(t)
    \/ \E t \in Clones : CloneTakeRead(t)
    \/ \E t \in Clones : CloneTakeWrite(t)

SpecClones == InitClones /\ [][NextClones]_vars

-----------------------------------------------------------------------------
(* The hasher runs: clones of a SyncCachedKeyHasher on their threads and a   *)
(* RefCachedKeyHasher, each kind over its own cache, next to NoCacheHasher   *)

\* keys hashed: of HALF_LEN bytes, of HASH_SIZE bytes, and one byte too long
HasherKeys == {<<1>>, <<1, 2>>, <<3, 4>>, <<1, 2, 3>>}

\* SyncCachedKeyHasher::new and RefCachedKeyHasher::new over HashMapDb::default();
\* inner is the first one's db, direct the second one's
InitHasher ==
    /\ CodecOff
    /\ SetTrie0(NewTrie)
    /\ db = <<>>
    /\ kv = EmptyMap
    /\ gc_supported = FALSE
    /\ gc_enabled = FALSE
    /\ ret = Ret("new", 0, "", FALSE)
    /\ steps = 0
    /\ inner = HashMapDb_from_map(FALSE, <<>>)
    /\ direct = HashMapDb_from_map(FALSE, <<>>)
    /\ read_items = <<>>
    /\ calls = <<>>
    /\ pc = [t \in Clones |-> Idle]
    /\ mutex = 0

\* the call of one clone; the other clones wait at the lock until it returns
SyncHash(t, key) ==
    /\ CanCall
    /\ \E o \in {SyncCachedKeyHasher_hash(inner, key)} :
          /\ inner' = o.s
          /\ calls' = Append(calls, [op |-> "SyncCachedKeyHasher", k |-> key, by |-> t,
                                     hit |-> key \in DOMAIN inner.db,
                                     res |-> o.res, direct |-> NoCacheHasher_hash(key)])
    /\ UNCHANGED <<direct, read_items, clone_vars>>
    /\ UNCHANGED <<trie_vars, codec_vars>>

RefHash(key) ==
    /\ CanCall
    /\ \E o \in {RefCachedKeyHasher_hash(direct, key)} :
          /\ direct' = o.s
          /\ calls' = Append(calls, [op |-> "RefCachedKeyHasher", k |-> key, by |-> 0,
                                     hit |-> key \in DOMAIN direct.db,
                                     res |-> o.res, direct |-> NoCacheHasher_hash(key)])
    /\ UNCHANGED <<inner, read_items, clone_vars>>
    /\ UNCHANGED <<trie_vars, codec_vars>>

NextHasher ==
    \/ \E t \in Clones, key \in HasherKeys : SyncHash(t, key)
    \/ \E key \in HasherKeys : RefHash(key)

SpecHasher == InitHasher /\ [][NextHasher]_vars

-----------------------------------------------------------------------------
(* The value-hash runs: hash_bytes_array applied to arrays of preimages *)

MaxPreimages == 27

\* a preimage that is a field element, and one that is not; both tell their
\* position
FieldPreimage(i) == [j \in 1..HASH_SIZE |-> IF j = 1 THEN 1 + (i % 40) ELSE i]
BytesPreimage(i) == [j \in 1..HASH_SIZE |-> IF j = 1 THEN 200 ELSE i]

\* the positions (from 1) that hold a preimage which is no field element
BytesPositions == {{}, {1}, {2}, {25}, {26}, {1, 25}, {25, 26}}

ValueBytes(n, at) ==
    [i \in 1..n |-> IF i \in at THEN BytesPreimage(i) ELSE FieldPreimage(i)]

\* compression flags: none, low bits, bit 24, bit 25, both, bits 0..25
ArrayFlags == {0, 1, 3, Pow2(24), Pow2(25), Pow2(24) + Pow2(25), Pow2(26) - 1}

InitHashArray ==
    /\ CodecOff
    /\ SetTrie0(NewTrie)
    /\ db = <<>>
    /\ kv = EmptyMap
    /\ gc_supported = FALSE
    /\ gc_enabled = FALSE
    /\ ret = Ret("new", 0, "", FALSE)
    /\ steps = 0
    /\ StoreOff

\* one call of H::hash_bytes_array; calls keeps the call and its result
HashBytesArray(value_bytes, flags) ==
    /\ calls = <<>>
    /\ calls' = << [op |-> "hash_bytes_array", value_bytes |-> value_bytes,
                    flags |-> flags, res |-> hash_bytes_array(value_bytes, flags)] >>
    /\ UNCHANGED <<trie_vars, codec_vars, clone_vars, inner, read_items, direct>>

\* the result is dropped
DropResult ==
    /\ calls # <<>>
    /\ calls' = <<>>
    /\ UNCHANGED <<trie_vars, codec_vars, clone_vars, inner, read_items, direct>>

NextHashArray ==
    \/ \E n \in 1..MaxPreimages, at \in BytesPositions, flags \in ArrayFlags :
            HashBytesArray(ValueBytes(n, at), flags)
    \/ DropResult

SpecHashArray == InitHashArray /\ [][NextHashArray]_vars

-----------------------------------------------------------------------------
(* Helpers of the properties *)

Present(k) == kv[k] # NoValue

\* what get returns for a key the map holds / does not hold
Found(v) == [err |-> "", some |-> TRUE, value |-> v]
Absent == [err |-> "", some |-> FALSE, value |-> NoValue]
Expected(m, k) == IF m[k] = NoValue THEN Absent ELSE Found(m[k])

\* the hashes of the non-empty nodes reachable from ref, each with the node
\* the trie resolves it to; a reference that resolves to nothing yields Unset
RECURSIVE Reachable(_, _, _)
Reachable(t, d, ref) ==
    LET g == get_node_by_hash(t, d, ref)
    IN IF g.err # "" THEN {<<Unset, EmptyNode>>}
       ELSE IF g.node.nt = Empty THEN {}
       ELSE IF g.node.nt = Leaf THEN {<<try_as_hash(ref, t.dirty_branch_nodes), g.node>>}
       ELSE {<<try_as_hash(ref, t.dirty_branch_nodes), g.node>>}
                \cup Reachable(t, d, g.node.l) \cup Reachable(t, d, g.node.r)

ReachableHashes(t, d) == {x[1] : x \in Reachable(t, d, t.root)}

\* every reachable node is in the store under its own hash
AllStored(t, d) ==
    \A x \in Reachable(t, d, t.root) :
        x[1] # Unset /\ x[1] \in DOMAIN d /\ d[x[1]].node_hash = x[1]
            /\ d[x[1]] = Archive(x[2], t.dirty_branch_nodes)

\* the reference resolves to an empty node or a leaf
IsTerminal(t, d, ref) ==
    LET c == get_node_by_hash(t, d, ref)
    IN c.err = "" /\ c.node.nt \in {Empty, Leaf}

\* the reference resolves to a branch
IsBranch(t, d, ref) ==
    LET c == get_node_by_hash(t, d, ref)
    IN c.err = "" /\ IsBranchType(c.node.nt)

-----------------------------------------------------------------------------
(* Reading a proof back: what a verifier computes from the encodings alone *)

\* the leaf hash of key k holding value v
LeafHashOf(k, v) == Hash(Leaf, KeyHasher_hash(k), hash_bytes_array(v.pre, v.flags).hash)

EncType(e) == e[1][1]
EncIsBranch(e) == IsBranchType(EncType(e)) /\ Len(e) = 3
EncIsLeaf(e) == EncType(e) = Leaf /\ Len(e) >= 4 /\ Len(e) = 3 + e[3][1] + 1
EncIsEmpty(e) == e = << <<Empty>> >>

\* the value a leaf encoding carries: the mark's low byte counts the
\* preimages, its upper three bytes are the compression flags
EncLeafValue(e) ==
    [pre |-> SubSeq(e, 4, 3 + e[3][1]),
     flags |-> e[3][2] + 256 * e[3][3] + 65536 * e[3][4]]

\* the node hash recomputed from an encoding
EncHash(e) ==
    IF EncIsEmpty(e) THEN ZERO
    ELSE IF EncIsLeaf(e)
    THEN Hash(Leaf, e[2], hash_bytes_array(EncLeafValue(e).pre, EncLeafValue(e).flags).hash)
    ELSE IF EncIsBranch(e) THEN Hash(EncType(e), e[2], e[3])
    ELSE Unset

\* the child pointer a branch encoding holds on the side the key takes at level
EncChild(e, node_key, level) == IF get_path(node_key, level) THEN e[3] ELSE e[2]

\* the proof p links the root hash r to a terminal node along the path of k
ProofChainOk(p, r, k) ==
    LET n == Len(p) - 1
    IN /\ n >= 1
       /\ p[n + 1] = MAGIC_NODE_BYTES
       /\ EncHash(p[1]) = r
       /\ \A i \in 2..n :
             EncHash(p[i]) = EncChild(p[i - 1], KeyHasher_hash(k), i - 2)
       /\ \A i \in 1..(n - 1) : EncIsBranch(p[i])
       /\ EncIsLeaf(p[n]) \/ EncIsEmpty(p[n])

\* every element before the magic is the encoding of the node d holds under
\* the hash the element hashes to (the empty node is held nowhere)
ProofNodesOk(p, d) ==
    \A i \in 1..(Len(p) - 1) :
        \/ EncIsEmpty(p[i])
        \/ /\ EncHash(p[i]) \in DOMAIN d
           /\ p[i] = canonical_value(d[EncHash(p[i])], TRUE, <<>>)

\* the terminal of p is the leaf of k with value g.value exactly when g is
\* Some; otherwise it is the empty node or the leaf of another key
ProofTerminalOk(p, k, g) ==
    LET e == p[Len(p) - 1]
    IN IF g.some
       THEN EncIsLeaf(e) /\ e[2] = KeyHasher_hash(k) /\ EncLeafValue(e) = g.value
       ELSE EncIsEmpty(e) \/ (EncIsLeaf(e) /\ e[2] # KeyHasher_hash(k))

-----------------------------------------------------------------------------
(* The claims *)

\* C1 root determinism: whatever the order of the raw_update calls and
\* wherever commits fall between them, the root after a final commit of a
\* trie that started empty is the root of the fresh trie built from the
\* induced map alone, so two call sequences inducing the same map end with
\* equal roots.
C1_RootDeterminism ==
    LET c == commit(Trie, db)
    IN c.err = "" /\ c.t.root = Fresh(kv).t.root

\* three updates of three keys, then a commit
C1_Witness ==
    /\ ret.op = "commit" /\ ret.err = ""
    /\ Cardinality({k \in Keys : Present(k)}) >= 3
    /\ root = Fresh(kv).t.root

\* C2 lookup soundness: after any sequence of raw_update, delete and commit,
\* get of every key whose last mutation was an update returns Some of the
\* value written, both while the trie is dirty and after commit.
C2_LookupSound ==
    \A k \in Keys : Present(k) => get(Trie, db, k) = Found(kv[k])

\* a dirty trie in which one present key is served from dirty_leafs and
\* another from the store
C2_Witness ==
    /\ is_dirty(Trie)
    /\ \E k1, k2 \in Keys :
          /\ Present(k1) /\ Present(k2)
          /\ LeafHashOf(k1, kv[k1]) \in DOMAIN dirty_leafs
          /\ LeafHashOf(k2, kv[k2]) \notin DOMAIN dirty_leafs
          /\ LeafHashOf(k2, kv[k2]) \in DOMAIN db

\* C3 deletion equivalence: delete of a present key succeeds, after it get of
\* that key returns None, every other present key keeps its value, and the
\* root after commit is the root of a fresh trie built from the remaining
\* keys.
C3_DeleteEquivalence ==
    [][(ret'.op = "delete" /\ kv[ret'.key] # NoValue) =>
          /\ ret'.err = ""
          /\ get(Trie', db', ret'.key) = Absent
          /\ \A k \in Keys \ {ret'.key} :
                kv[k] # NoValue => get(Trie', db', k) = Found(kv[k])
          /\ kv' = [kv EXCEPT ![ret'.key] = NoValue]
          /\ LET c == commit(Trie', db')
             IN c.err = "" /\ c.t.root = Fresh(kv').t.root]_vars

\* key 4, whose leaf hung with key 1's under a chain of one-sided branches,
\* was deleted and key 1 remains: the chain has to collapse
C3_Witness ==
    /\ ret.op = "delete" /\ ret.err = "" /\ ret.found /\ ret.key = 4
    /\ Present(1) /\ \E k \in {2, 3} : Present(k)
    /\ commit(Trie, db).t.root = Fresh(kv).t.root

\* C4 proof soundness: on a committed trie prove(k) ends with
\* MAGIC_NODE_BYTES; before it stand the canonical encodings of the nodes on
\* the lookup path of k: the first hashes to the root, each later one hashes
\* to the child pointer of its predecessor on the side of the key's path bit,
\* only the last is terminal, and that terminal is the leaf of k holding
\* get(k)'s value exactly when get(k) is Some, else the empty node or a leaf
\* of another key.
C4_ProofSound ==
    ~is_dirty(Trie) =>
        \A k \in Keys :
            LET p == prove(Trie, db, k)
            IN /\ p.err = ""
               /\ ProofChainOk(p.proof, root.hash, k)
               /\ ProofNodesOk(p.proof, db)
               /\ ProofTerminalOk(p.proof, k, get(Trie, db, k))

\* a committed trie with a proof of presence several branches deep, a proof
\* of absence ending at the empty node and one ending at another key's leaf
C4_Witness ==
    /\ ~is_dirty(Trie) /\ ret.op = "commit"
    /\ \E k \in Keys :
          get(Trie, db, k).some /\ Len(prove(Trie, db, k).proof) >= 4
    /\ \E k \in Keys :
          LET p == prove(Trie, db, k).proof
          IN ~Present(k) /\ Len(p) >= 3 /\ EncIsEmpty(p[Len(p) - 1])
    /\ \E k \in Keys :
          LET p == prove(Trie, db, k).proof
          IN ~Present(k) /\ Len(p) >= 3 /\ EncIsLeaf(p[Len(p) - 1])

\* C5 commit persistence: after a successful commit the root is a resolved
\* hash, the trie is not dirty, both arenas are empty, gc_nodes holds only
\* resolved entries, and every non-empty node reachable from the root is in
\* the store under its own hash.
C5_CommitPersists ==
    (ret.op = "commit" /\ ret.err = "") =>
        /\ ~root.lazy /\ root.hash # Unset
        /\ ~is_dirty(Trie)
        /\ dirty_branch_nodes = <<>>
        /\ DOMAIN dirty_leafs = {}
        /\ \A g \in gc_nodes : is_resolved(g, dirty_branch_nodes)
        /\ AllStored(Trie, db)

\* a commit wrote a trie of three nodes or more; nodes it replaced are still
\* in the store and their hashes wait in gc_nodes
C5_Witness ==
    /\ ret.op = "commit" /\ ret.err = ""
    /\ gc_nodes # {}
    /\ Cardinality(ReachableHashes(Trie, db)) >= 3
    /\ DOMAIN db # ReachableHashes(Trie, db)

\* C6 commit idempotence: a commit called right after a commit changes
\* neither the root, the arenas, gc_nodes nor the store.
C6_CommitIdempotent ==
    ret.op = "commit" =>
        LET c == commit(Trie, db)
        IN c.err = "" /\ c.t = Trie /\ c.d = db

\* a commit has just written nodes and kept candidates: the state a second
\* commit finds
C6_Witness ==
    /\ ret.op = "commit" /\ ret.err = ""
    /\ gc_nodes # {}
    /\ DOMAIN db # {}
    /\ root.hash # ZERO

\* C7 full_gc safety: on a clean trie over a store that supports gc, full_gc
\* succeeds, leaves the root alone, leaves in the store exactly the nodes
\* reachable from the root, each as it was, and get still returns the value
\* of every present key.
C7_FullGcSafe ==
    [][(ret'.op = "full_gc" /\ gc_supported /\ ~is_dirty(Trie)) =>
          /\ ret'.err = ""
          /\ root' = root
          /\ DOMAIN db' = ReachableHashes(Trie, db)
          /\ \A h \in DOMAIN db' : h \in DOMAIN db /\ db'[h] = db[h]
          /\ \A k \in Keys :
                kv[k] # NoValue => get(Trie', db', k) = Found(kv[k])]_vars

\* full_gc ran on a clean, non-empty trie and removed replaced nodes: the
\* hashes waiting in gc_nodes are no longer in the store
C7_Witness ==
    /\ ret.op = "full_gc" /\ ret.err = "" /\ gc_supported
    /\ ~is_dirty(Trie)
    /\ root.hash # ZERO
    /\ DOMAIN db = ReachableHashes(Trie, db)
    /\ \E g \in gc_nodes : try_as_hash(g, dirty_branch_nodes) \notin DOMAIN db

\* C8 laziness: raw_update and delete never modify the node store (get,
\* prove and iter only read it); the store changes only inside commit, gc
\* and full_gc.
C8_Lazy ==
    [][/\ ret'.op \in {"raw_update", "delete"} => db' = db
       /\ db' # db => ret'.op \in {"commit", "gc", "full_gc"}]_vars

\* an update succeeded and its leaf lives in dirty_leafs only
C8_Witness ==
    /\ ret.op = "raw_update" /\ ret.err = ""
    /\ \E h \in DOMAIN dirty_leafs : h \notin DOMAIN db
    /\ dirty_branch_nodes # <<>>

\* C9 delete's result: delete(k) returns Ok(true) when k is present and
\* Ok(false) when it is absent, and in the absent case root,
\* dirty_branch_nodes, dirty_leafs and gc_nodes are left as they were.
C9_DeleteResult ==
    [][ret'.op = "delete" =>
          /\ ret'.err = ""
          /\ ret'.found = (kv[ret'.key] # NoValue)
          /\ ~ret'.found =>
                UNCHANGED <<root, dirty_branch_nodes, dirty_leafs, gc_nodes>>]_vars

\* delete of the absent key 5 on a dirty trie: its walk ended at key 1's leaf
C9_Witness ==
    /\ ret.op = "delete" /\ ret.err = "" /\ ~ret.found /\ ret.key = 5
    /\ Present(1) /\ ~Present(5)
    /\ is_dirty(Trie) /\ gc_nodes # {}

\* C10 get of an absent key: for every key absent from the trie get returns
\* Ok(None), also when the walk ends at another key's leaf at the deepest
\* level TRIE_MAX_LEVELS - 1.
C10_GetAbsentIsNone ==
    \A k \in Keys : ~Present(k) => get(Trie, db, k) = Absent

\* C11 failed update is atomic: when raw_update returns MaxLevelReached or a
\* hash error, root, dirty_branch_nodes, dirty_leafs and gc_nodes are what
\* they were before the call, and every key present before the call still
\* returns its value.
C11_FailedUpdateAtomic ==
    [][(ret'.op = "raw_update" /\ ret'.err \in {"MaxLevelReached", "Hash"}) =>
          /\ UNCHANGED <<root, dirty_branch_nodes, dirty_leafs, gc_nodes>>
          /\ \A k \in Keys : Present(k) => get(Trie', db', k) = Found(kv[k])]_vars

\* an insertion below a branch of a dirty trie failed at the deepest level
C11_Witness ==
    /\ ret.op = "raw_update" /\ ret.err = "MaxLevelReached"
    /\ is_dirty(Trie) /\ gc_nodes # {}
    /\ Cardinality({k \in Keys : Present(k)}) >= 2

\* the non-zero references reachable from ref, as the nodes hold them
RECURSIVE ReachableRefs(_, _, _)
ReachableRefs(t, d, ref) ==
    LET below(g) ==
            IF g.err # "" \/ g.node.nt = Empty THEN {}
            ELSE IF g.node.nt = Leaf THEN {ref}
            ELSE {ref} \cup ReachableRefs(t, d, g.node.l) \cup ReachableRefs(t, d, g.node.r)
    IN below(get_node_by_hash(t, d, ref))

\* the leaves below (or at) ref
LeafRefs(t, d, ref) ==
    {x \in ReachableRefs(t, d, ref) : get_node_by_hash(t, d, x).node.nt = Leaf}

\* C12 (as stated) gc candidate recording: every node that a successful
\* raw_update or delete makes unreachable from the root (a replaced or
\* deleted leaf, a rebuilt branch, a branch pruned away) is in gc_nodes after
\* the operation.
C12_CandidatesRecorded ==
    [][(ret'.op \in {"raw_update", "delete"} /\ ret'.err = "") =>
          (ReachableRefs(Trie, db, root) \ ReachableRefs(Trie', db', root')) \subseteq gc_nodes']_vars

\* C12 (amended) every node that a successful raw_update or delete makes
\* unreachable from the root is in gc_nodes after the operation, unless it
\* is a branch that a delete pruned away: a branch that held two leaves, the
\* deleted one and the one that took its place.
C12_CandidatesRecordedUnlessPruned ==
    [][(ret'.op \in {"raw_update", "delete"} /\ ret'.err = "") =>
          \A x \in (ReachableRefs(Trie, db, root) \ ReachableRefs(Trie', db', root'))
                        \ gc_nodes' :
              /\ ret'.op = "delete"
              /\ IsBranch(Trie, db, x)
              /\ Cardinality(LeafRefs(Trie, db, x)) = 2]_vars

\* the first call deleted key 1 of four: the leaf of key 4 has moved up to
\* the root's left side, the branches that were between are gone, and
\* gc_nodes holds the deleted leaf and the old root, nothing else
C12_Witness ==
    /\ ret.op = "delete" /\ ret.found /\ ret.key = 1 /\ steps = 1
    /\ {k \in Keys : Present(k)} = {2, 3, 4}
    /\ get_node_by_hash(Trie, db, get_node_by_hash(Trie, db, root).node.l).node.node_key
          = KeyHasher_hash(4)
    /\ Cardinality(gc_nodes) = 2

\* the first level at which the node keys of the keys a and b part
DivergeLevel(a, b) ==
    CHOOSE i \in 0..(TRIE_MAX_LEVELS - 1) :
        /\ get_path(KeyHasher_hash(a), i) # get_path(KeyHasher_hash(b), i)
        /\ \A j \in 0..(i - 1) :
              get_path(KeyHasher_hash(a), j) = get_path(KeyHasher_hash(b), j)

\* from ref at level on, the trie is a chain of one-sided branches (LTRB
\* where the keys a and b share a 1, LBRT where they share a 0, the other
\* side empty) that ends in one LTRT over the leaves of a and b
RECURSIVE ChainOk(_, _, _, _, _, _)
ChainOk(t, d, ref, a, b, level) ==
    LET leaf_of(side, k) ==
            LET c == get_node_by_hash(t, d, side)
            IN c.err = "" /\ c.node.nt = Leaf /\ c.node.node_key = KeyHasher_hash(k)
        shaped(g, pa, pb) ==
            /\ g.err = ""
            /\ IF pa = pb
               THEN /\ g.node.nt = (IF pa THEN BranchLTRB ELSE BranchLBRT)
                    /\ is_zero(IF pa THEN g.node.l ELSE g.node.r, t.dirty_branch_nodes)
                    /\ ChainOk(t, d, IF pa THEN g.node.r ELSE g.node.l, a, b, level + 1)
               ELSE /\ g.node.nt = BranchLTRT
                    /\ leaf_of(g.node.l, IF pa THEN b ELSE a)
                    /\ leaf_of(g.node.r, IF pa THEN a ELSE b)
    IN /\ level < TRIE_MAX_LEVELS
       /\ shaped(get_node_by_hash(t, d, ref),
                 get_path(KeyHasher_hash(a), level), get_path(KeyHasher_hash(b), level))

\* the trie holds the key a and nothing else
Only(a) == {k \in Keys : Present(k)} = {a}

\* C13 (as stated) the deepest chain: inserting a key into a trie that holds
\* only a key whose node key differs from the new one in nothing but the last
\* addressed bit (bit TRIE_MAX_LEVELS - 1) succeeds and yields the chain of
\* one-sided branches that ends in one LTRT over the two leaves.
C13_LastBitChain ==
    [][\A a \in Keys :
          (/\ Only(a) /\ ret'.op = "raw_update" /\ ret'.key # a
           /\ DivergeLevel(a, ret'.key) = TRIE_MAX_LEVELS - 1)
          => /\ ret'.err = ""
             /\ ChainOk(Trie', db', root', a, ret'.key, 0)]_vars

\* C13 (amended) inserting a key into a trie that holds only one other key
\* returns MaxLevelReached when the two node keys first differ at bit
\* TRIE_MAX_LEVELS - 1; when they first differ at an earlier bit p (at most
\* TRIE_MAX_LEVELS - 2) and the value hashes, it succeeds and yields p
\* one-sided branches (LBRT for a shared 0, LTRB for a shared 1, the other
\* side empty) over one LTRT at level p that holds the two leaves.
C13_DeepestChain ==
    [][\A a \in Keys :
          (Only(a) /\ ret'.op = "raw_update" /\ ret'.key # a)
          => IF DivergeLevel(a, ret'.key) = TRIE_MAX_LEVELS - 1
             THEN ret'.err = "MaxLevelReached"
             ELSE /\ ret'.err \in {"", "Hash"}
                  /\ ret'.err = "" => ChainOk(Trie', db', root', a, ret'.key, 0)]_vars

\* key 4 went into a trie that held only key 1: the two part at the last
\* level that can hold a branch
C13_Witness ==
    /\ ret.op = "raw_update" /\ ret.err = "" /\ ret.key = 4 /\ steps = 2
    /\ {k \in Keys : Present(k)} = {1, 4}
    /\ DivergeLevel(1, 4) = TRIE_MAX_LEVELS - 2
    /\ ChainOk(Trie, db, root, 1, 4, 0)

\* the non-empty nodes reachable from ref, each as <<is a branch, level>>
RECURSIVE NodeLevels(_, _, _, _)
NodeLevels(t, d, ref, level) ==
    LET below(g) ==
            IF g.err # "" \/ g.node.nt = Empty THEN {}
            ELSE IF g.node.nt = Leaf THEN {<<FALSE, level>>}
            ELSE {<<TRUE, level>>} \cup NodeLevels(t, d, g.node.l, level + 1)
                                  \cup NodeLevels(t, d, g.node.r, level + 1)
    IN below(get_node_by_hash(t, d, ref))

\* storing the absent key k needs a node below the deepest level: a present
\* key shares every addressed bit with k but the last
NeedsDeeper(k) ==
    /\ ~Present(k)
    /\ \E a \in Keys : Present(a) /\ DivergeLevel(a, k) = TRIE_MAX_LEVELS - 1

\* C14 depth bound: in every state every branch reachable from the root is at
\* a level below TRIE_MAX_LEVELS - 1 and every leaf at a level of at most
\* TRIE_MAX_LEVELS - 1; a raw_update that would need a deeper node returns
\* MaxLevelReached and creates nothing, and no other raw_update returns it.
C14_DepthBound ==
    /\ [](\A x \in NodeLevels(Trie, db, root, 0) :
             IF x[1] THEN x[2] < TRIE_MAX_LEVELS - 1 ELSE x[2] <= TRIE_MAX_LEVELS - 1)
    /\ [][ret'.op = "raw_update" =>
             /\ (ret'.err = "MaxLevelReached") = NeedsDeeper(ret'.key)
             /\ ret'.err = "MaxLevelReached" =>
                   UNCHANGED <<root, dirty_branch_nodes, dirty_leafs, gc_nodes, db>>]_vars

\* a dirty trie with a branch at level TRIE_MAX_LEVELS - 2 and a leaf at
\* level TRIE_MAX_LEVELS - 1 has just refused a key that needs one level more
C14_Witness ==
    /\ ret.op = "raw_update" /\ ret.err = "MaxLevelReached"
    /\ is_dirty(Trie)
    /\ <<TRUE, TRIE_MAX_LEVELS - 2>> \in NodeLevels(Trie, db, root, 0)
    /\ <<FALSE, TRIE_MAX_LEVELS - 1>> \in NodeLevels(Trie, db, root, 0)

\* what node_type says of each side: terminal (T) or branch (B)
LeftIsT(nt) == nt \in {BranchLTRT, BranchLTRB}
RightIsT(nt) == nt \in {BranchLTRT, BranchLBRT}

\* the node types of the branches reachable from the root
BranchTypes == {x[2].nt : x \in {y \in Reachable(Trie, db, root) : IsBranchType(y[2].nt)}}

\* C15 node-type truthfulness: in every state, committed or not, every branch
\* reachable from the root has a node_type that marks a side T exactly when
\* that child is empty or a leaf, and B exactly when that child is a branch.
C15_NodeTypeTruthful ==
    \A x \in Reachable(Trie, db, root) :
        IsBranchType(x[2].nt) =>
            /\ LeftIsT(x[2].nt) = IsTerminal(Trie, db, x[2].l)
            /\ ~LeftIsT(x[2].nt) = IsBranch(Trie, db, x[2].l)
            /\ RightIsT(x[2].nt) = IsTerminal(Trie, db, x[2].r)
            /\ ~RightIsT(x[2].nt) = IsBranch(Trie, db, x[2].r)

\* an update and then a deletion left an uncommitted trie whose root, once
\* LBRB, is now LTRB over a leaf and a branch
C15_Witness ==
    /\ ret.op = "delete" /\ ret.found /\ steps >= 2
    /\ is_dirty(Trie)
    /\ BranchTypes = {BranchLTRT, BranchLTRB}
    /\ Cardinality({k \in Keys : Present(k)}) = 3

\* the parsed node a equals the encoded node b in node type, children, node
\* key, value preimages, compress_flags and key preimage
SameNode(a, b) ==
    /\ a.nt = b.nt
    /\ try_as_hash(a.l, <<>>) = try_as_hash(b.l, <<>>)
    /\ try_as_hash(a.r, <<>>) = try_as_hash(b.r, <<>>)
    /\ a.node_key = b.node_key
    /\ Len(a.pre) = Len(b.pre) /\ a.pre = b.pre
    /\ a.flags = b.flags
    /\ a.kpre = b.kpre

Tag(b) == b[1]
HasTag(b) == b # <<>> /\ Tag(b) \in {Leaf, Empty, BranchLTRT, BranchLTRB, BranchLBRT, BranchLBRB}
Slice(b, from, n) == SubSeq(b, from, from + n - 1)
\* a leaf: tag, node key, mark, N preimages, size byte, key preimage
MarkAt == 2 + HASH_SIZE
CountOf(b) == b[MarkAt]
SizeAt(b) == MarkAt + 4 + CountOf(b) * HASH_SIZE
\* the input ends before the layout it announces does (a size byte other
\* than 0 announces one key preimage)
ShortOfLayout(b) ==
    \/ b = <<>>
    \/ IsBranchType(Tag(b)) /\ Len(b) < 1 + 2 * HASH_SIZE
    \/ /\ Tag(b) = Leaf
       /\ \/ Len(b) < MarkAt + 3
          \/ Len(b) < SizeAt(b)
          \/ b[SizeAt(b)] > 0 /\ Len(b) < SizeAt(b) + HASH_SIZE

\* an embedded node key or child hash that is all there is not canonical
BadHash(b) ==
    \/ /\ Len(b) >= 1 + HASH_SIZE
       /\ Tag(b) = Leaf \/ IsBranchType(Tag(b))
       /\ ~IsFieldElement(Slice(b, 2, HASH_SIZE))
    \/ /\ Len(b) >= 1 + 2 * HASH_SIZE
       /\ IsBranchType(Tag(b))
       /\ ~IsFieldElement(Slice(b, 2 + HASH_SIZE, HASH_SIZE))

\* the node a well-formed byte string b holds
Decoded(b) ==
    IF Tag(b) = Empty THEN EmptyNode
    ELSE IF IsBranchType(Tag(b))
    THEN new_branch(Tag(b), HashRef(Slice(b, 2, HASH_SIZE)),
                    HashRef(Slice(b, 2 + HASH_SIZE, HASH_SIZE)))
    ELSE new_leaf(Slice(b, 2, HASH_SIZE),
                  [i \in 1..CountOf(b) |-> Slice(b, MarkAt + 4 + (i - 1) * HASH_SIZE, HASH_SIZE)],
                  b[MarkAt + 1] + 256 * b[MarkAt + 2] + 65536 * b[MarkAt + 3],
                  IF b[SizeAt(b)] > 0 THEN Slice(b, SizeAt(b) + 1, HASH_SIZE) ELSE <<>>)

\* C17 parse errors: parsing any byte string returns (it never aborts)
\* InvalidNodeType exactly when there is a first byte and it is not in 4..9;
\* an EOF error only when the input is empty or shorter than the layout its
\* tag, count and size bytes announce; a hash error only when an embedded
\* node key or child hash is not a canonical field element; and the decoded
\* node exactly when none of the three is the case.
C17_ParseErrors ==
    stage \in {"parsed", "parsed_bare", "parsed_damaged"} =>
        /\ dec.err \in {"", "InvalidNodeType", "Eof", "HashError"}
        /\ (dec.err = "InvalidNodeType") = (enc_bytes # <<>> /\ ~HasTag(enc_bytes))
        /\ dec.err = "Eof" => ShortOfLayout(enc_bytes)
        /\ dec.err = "HashError" => BadHash(enc_bytes)
        /\ (dec.err = "") = (/\ HasTag(enc_bytes) /\ ~ShortOfLayout(enc_bytes)
                             /\ ~BadHash(enc_bytes))
        /\ dec.err = "" => dec.node = Decoded(enc_bytes)

\* a leaf encoding cut inside its key preimage was refused with an EOF error
C17_Witness ==
    /\ stage = "parsed_damaged" /\ dec.err = "Eof"
    /\ enc_node.nt = Leaf /\ enc_node.kpre # <<>>
    /\ Len(enc_bytes) >= MarkAt + 3
    /\ Len(enc_bytes) > SizeAt(enc_bytes) /\ enc_bytes[SizeAt(enc_bytes)] > 0

\* the hashes of the resolved entries of gc_nodes
ResolvedCandidates ==
    {try_as_hash(g, dirty_branch_nodes) :
        g \in {x \in gc_nodes : is_resolved(x, dirty_branch_nodes)}}

\* C18 gc: with GC enabled on the store, gc removes from the store every node
\* whose hash is a resolved entry of gc_nodes (and nothing else) and drops
\* those entries; unresolved entries stay when the trie is dirty and are
\* dropped otherwise.  With GC disabled gc changes neither the store nor
\* gc_nodes.  Either way it returns Ok and leaves the rest of the trie alone.
C18_Gc ==
    [][ret'.op = "gc" =>
          /\ ret'.err = ""
          /\ UNCHANGED <<root, dirty_branch_nodes, dirty_leafs, gc_enabled>>
          /\ IF gc_enabled
             THEN /\ DOMAIN db' = (DOMAIN db) \ ResolvedCandidates
                  /\ \A h \in DOMAIN db' : db'[h] = db[h]
                  /\ gc_nodes' = IF is_dirty(Trie)
                                 THEN {g \in gc_nodes : ~is_resolved(g, dirty_branch_nodes)}
                                 ELSE {}
             ELSE UNCHANGED <<db, gc_nodes>>]_vars

\* a gc on a dirty trie took nodes out of the store and kept the unresolved
\* candidates
C18_Witness ==
    /\ ret.op = "gc" /\ gc_enabled /\ is_dirty(Trie)
    /\ gc_nodes # {} /\ \A g \in gc_nodes : ~is_resolved(g, dirty_branch_nodes)
    /\ Cardinality(DOMAIN db) < Cardinality(DOMAIN Fresh(FullMap).d)
    /\ Cardinality({k \in Keys : Present(k)}) >= 4

-----------------------------------------------------------------------------
(* Removal from a key-value store *)

\* the call a step has just made
LastCall == calls[Len(calls)]

\* C19: remove(k) returns Ok; on a store whose GC is unsupported or disabled
\* it leaves the contents as they were, so that get(k) returns what it
\* returned before; with GC enabled a later get(k) returns None and get of
\* every other key returns what it returned before
C19_Remove ==
    [][(Len(calls') = Len(calls) + 1 /\ LastCall'.op = "remove") =>
          /\ LastCall'.direct = KvOk(FALSE, <<>>)
          /\ ~(is_gc_supported(direct) /\ Db_gc_enabled(direct)) =>
                /\ direct' = direct
                /\ Db_get(direct', LastCall'.k).res = Db_get(direct, LastCall'.k).res
          /\ (is_gc_supported(direct) /\ Db_gc_enabled(direct)) =>
                /\ Db_get(direct', LastCall'.k).res = KvOk(FALSE, <<>>)
                /\ \A j \in StoreKeys \ {LastCall'.k} :
                      Db_get(direct', j).res = Db_get(direct, j).res]_vars

\* a remove of a held key was ignored while GC was disabled, GC was enabled,
\* and the same remove took the key and left the other one
C19_Witness ==
    /\ Len(calls) = 3
    /\ calls[1].op = "remove" /\ calls[2].op = "set_gc_enabled" /\ calls[3].op = "remove"
    /\ calls[1].k = calls[3].k
    /\ direct.kind = "HashMapDb" /\ direct.gc_enabled
    /\ DOMAIN direct.db = StoreKeys \ {calls[3].k}

-----------------------------------------------------------------------------
(* The recorder middleware *)

\* the calls made up to the last take_read_items
Drained ==
    IF \E i \in 1..Len(calls) : calls[i].op = "take_read_items"
    THEN CHOOSE i \in 1..Len(calls) :
            /\ calls[i].op = "take_read_items"
            /\ \A j \in (i + 1)..Len(calls) : calls[j].op # "take_read_items"
    ELSE 0

\* the gets of k since then that returned a value
Hits(k) ==
    {i \in (Drained + 1)..Len(calls) :
        calls[i].op = "get" /\ calls[i].k = k /\ calls[i].res.err = "" /\ calls[i].res.some}

Latest(S) == CHOOSE i \in S : \A j \in S : j <= i

\* C20: the buffer maps exactly the keys a get returned a value for since the
\* last drain, each to the bytes returned last; no other call adds to it; and
\* every call returns what the wrapped store returns when called directly and
\* leaves that store as the direct call leaves it
C20_Recorder ==
    /\ DOMAIN read_items = {k \in StoreKeys : Hits(k) # {}}
    /\ \A k \in DOMAIN read_items : read_items[k] = calls[Latest(Hits(k))].res.item
    /\ inner = direct
    /\ \A i \in 1..Len(calls) : calls[i].res = calls[i].direct

\* a key was read, overwritten and read again, and the buffer holds the
\* second value
C20_Witness ==
    /\ Len(calls) = 3
    /\ calls[1].op = "get" /\ calls[1].res.some
    /\ calls[2].op \in {"put", "put_owned", "extend"}
    /\ calls[3].op = "get" /\ calls[3].k = calls[1].k
    /\ calls[3].res.item # calls[1].res.item
    /\ read_items = [k \in {calls[3].k} |-> calls[3].res.item]

-----------------------------------------------------------------------------
(* Clones of the recorder draining one buffer *)

\* the drains made after call i
DrainsAfter(i) == {j \in (i + 1)..Len(calls) : calls[j].op = "take_read_items"}

Earliest(S) == CHOOSE i \in S : \A j \in S : i <= j

\* the recorded gets of k made after call i and before call j
RecordedBetween(k, i, j) ==
    {h \in (i + 1)..(j - 1) : calls[h].op = "get" /\ calls[h].k = k /\ calls[h].res.some}

\* C21: with clones on several threads, each take_read_items returns the
\* whole buffer as it is when the drain ends and leaves it empty; a read
\* recorded before a drain is in the first drain after it, with the bytes
\* recorded last; and a read no drain has followed is in the buffer
C21_Drain ==
    /\ [](\A i \in 1..Len(calls) :
             (calls[i].op = "get" /\ calls[i].res.some) =>
                IF DrainsAfter(i) = {}
                THEN /\ calls[i].k \in DOMAIN read_items
                     /\ RecordedBetween(calls[i].k, i, Len(calls) + 1) = {} =>
                           read_items[calls[i].k] = calls[i].res.item
                ELSE LET j == Earliest(DrainsAfter(i))
                     IN /\ calls[i].k \in DOMAIN calls[j].res.item
                        /\ RecordedBetween(calls[i].k, i, j) = {} =>
                              calls[j].res.item[calls[i].k] = calls[i].res.item)
    /\ [][(Len(calls') = Len(calls) + 1 /\ LastCall'.op = "take_read_items") =>
             /\ LastCall'.res.item = read_items
             /\ read_items' = <<>>]_vars

\* a read was recorded, a drain took it, and a read recorded after the
\* drain is what the buffer holds
C21_Witness ==
    /\ Len(calls) = 3
    /\ calls[1].op = "get" /\ calls[1].res.some
    /\ calls[2].op = "take_read_items" /\ calls[1].k \in DOMAIN calls[2].res.item
    /\ calls[3].op = "get" /\ calls[3].res.some
    /\ DOMAIN read_items = {calls[3].k}

-----------------------------------------------------------------------------
(* The read-only store and the overlay store *)

\* a step that made one call of the given kinds on the store
Called(ops) == Len(calls') = Len(calls) + 1 /\ LastCall'.op \in ops

\* C22: every put and put_owned on a SharedDb fails with ReadOnly and leaves
\* the store behind the Arc as it was; get returns what that store returns
C22_SharedDb ==
    [][direct.kind = "SharedDb" =>
          /\ Called({"put", "put_owned"}) =>
                /\ LastCall'.direct = KvErr("ReadOnly")
                /\ direct' = direct
          /\ Called({"get"}) =>
                LastCall'.direct =
                    HashMapDb_get(HashMapDb_from_map(direct.gc_enabled, direct.db),
                                  LastCall'.k).res]_vars

\* both writes were refused and a get still returns the held value
C22_Witness ==
    /\ Len(calls) = 3
    /\ direct.kind = "SharedDb"
    /\ calls[1].op = "put" /\ calls[1].direct.err = "ReadOnly"
    /\ calls[2].op = "put_owned" /\ calls[2].direct.err = "ReadOnly"
    /\ calls[3].op = "get" /\ calls[3].k = calls[1].k
    /\ calls[3].direct = KvOk(TRUE, <<7>>)

\* C23: get on an UpdateDb returns the write store's value when the write
\* store holds the key and the backing store's value otherwise; put and
\* put_owned write to the write store, so that the next get returns the
\* value put; and no call changes the backing store
C23_UpdateDb ==
    [][direct.kind = "UpdateDb" =>
          /\ Called({"get"}) =>
                LastCall'.direct =
                    IF LastCall'.k \in DOMAIN direct.write.db
                    THEN KvOk(TRUE, direct.write.db[LastCall'.k])
                    ELSE KvOption(direct.cache.db, LastCall'.k)
          /\ \A v \in StoreValues :
                (Called({"put", "put_owned"}) /\ direct'.write.db =
                     MapPut(direct.write.db, LastCall'.k, v)) =>
                    Db_get(direct', LastCall'.k).res = KvOk(TRUE, v)
          /\ Called({"put", "put_owned"}) =>
                \E v \in StoreValues :
                    direct'.write.db = MapPut(direct.write.db, LastCall'.k, v)
          /\ direct'.cache = direct.cache]_vars

\* a key held by both stores was read from the write store, a key held by the
\* backing store alone was read from there, then overwritten
C23_Witness ==
    /\ Len(calls) = 3
    /\ direct.kind = "UpdateDb"
    /\ calls[1].op = "get" /\ calls[1].k = <<1>> /\ calls[1].direct = KvOk(TRUE, <<8>>)
    /\ calls[2].op = "get" /\ calls[2].k = <<2>> /\ calls[2].direct = KvOk(TRUE, <<7>>)
    /\ calls[3].op = "put" /\ calls[3].k = <<2>>
    /\ direct.write.db[<<2>>] = <<8>> /\ direct.cache.db[<<2>>] = <<7>>
    /\ direct.cache.db[<<1>>] = <<7>>

-----------------------------------------------------------------------------
(* Memoizing key hashers *)

\* C24: every call of a cached hasher, on a hit and on a miss, from any
\* clone, returns what NoCacheHasher returns for the key, the hash or the
\* error; and the caches hold hashes only of keys whose hash succeeds
C24_CachedHashers ==
    /\ \A i \in 1..Len(calls) : calls[i].res = calls[i].direct
    /\ \A c \in {inner, direct} : \A key \in DOMAIN c.db :
          NoCacheHasher_hash(key) = KvOk(TRUE, c.db[key])

\* one clone missed, the other hit what the first one stored, and a failed
\* hash left the cache as it was
C24_Witness ==
    /\ Len(calls) = 3
    /\ calls[1].op = "SyncCachedKeyHasher" /\ ~calls[1].hit /\ calls[1].res.err = ""
    /\ calls[2].op = "SyncCachedKeyHasher" /\ calls[2].hit /\ calls[2].by # calls[1].by
    /\ calls[2].res = calls[1].res
    /\ calls[3].op = "SyncCachedKeyHasher" /\ calls[3].res.err = "Hash"
    /\ DOMAIN inner.db = {calls[1].k}

-----------------------------------------------------------------------------
(* Iteration *)

\* the leaves and branches at and below ref, as get_node_by_hash returns them
NodesBelow(t, d, ref) ==
    {get_node_by_hash(t, d, x).node : x \in ReachableRefs(t, d, ref)}

\* the places of the sequence out that hold the node
Places(out, node) == {i \in 1..Len(out) : out[i].err = "" /\ out[i].node = node}

\* C25: iter ends, every item it yields is a node, every leaf and every
\* branch reachable from the root is yielded once, and nothing else but
\* empty nodes is yielded.  iter takes the trie and the store by shared
\* reference and returns the items only.
C25_IterOnce ==
    LET once(out) ==
            /\ \A i \in 1..Len(out) : out[i].err = ""
            /\ \A node \in NodesBelow(Trie, db, root) : Cardinality(Places(out, node)) = 1
            /\ \A i \in 1..Len(out) :
                  out[i].node.nt = Empty \/ out[i].node \in NodesBelow(Trie, db, root)
    IN once(iter(Trie, db))

\* three keys are held, the trie has uncommitted nodes, and iter yields at
\* least two branches and three leaves
C25_Witness ==
    /\ Cardinality({k \in Keys : Present(k)}) = 3
    /\ is_dirty(Trie)
    /\ Cardinality({n \in NodesBelow(Trie, db, root) : n.nt = Leaf}) = 3
    /\ Cardinality({n \in NodesBelow(Trie, db, root) : IsBranchType(n.nt)}) >= 2
    /\ Len(iter(Trie, db)) >= 5

\* C26: iter yields a branch before the nodes below it and every leaf and
\* branch of its left subtree before any of its right subtree
C26_LeftFirst ==
    LET ordered(out) ==
            \A i \in 1..Len(out) :
                IsBranchType(out[i].node.nt) =>
                    /\ \A n \in NodesBelow(Trie, db, out[i].node.l) \cup
                                NodesBelow(Trie, db, out[i].node.r) :
                          \A p \in Places(out, n) : i < p
                    /\ \A a \in NodesBelow(Trie, db, out[i].node.l),
                          b \in NodesBelow(Trie, db, out[i].node.r) :
                          \A p \in Places(out, a), q \in Places(out, b) : p < q
    IN ordered(iter(Trie, db))

\* what the iterator does: the right subtree of a branch comes first
C26_RightFirst ==
    LET ordered(out) ==
            \A i \in 1..Len(out) :
                IsBranchType(out[i].node.nt) =>
                    /\ \A n \in NodesBelow(Trie, db, out[i].node.l) \cup
                                NodesBelow(Trie, db, out[i].node.r) :
                          \A p \in Places(out, n) : i < p
                    /\ \A a \in NodesBelow(Trie, db, out[i].node.l),
                          b \in NodesBelow(Trie, db, out[i].node.r) :
                          \A p \in Places(out, a), q \in Places(out, b) : q < p
    IN ordered(iter(Trie, db))

-----------------------------------------------------------------------------
(* A node missing from the store *)

\* the walk along node_key from ref at level i comes to a resolved hash that is
\* neither a dirty leaf nor in the store
RECURSIVE PathMiss(_, _, _, _, _)
PathMiss(t, d, node_key, ref, i) ==
    LET visit(g) ==
            IF g.err # "" THEN ~ref.lazy
            ELSE IF IsBranchType(g.node.nt) /\ i + 1 < TRIE_MAX_LEVELS
            THEN PathMiss(t, d, node_key,
                          IF get_path(node_key, i) THEN g.node.r ELSE g.node.l, i + 1)
            ELSE FALSE
    IN visit(get_node_by_hash(t, d, ref))

Missed(k) == PathMiss(Trie, db, KeyHasher_hash(k), root, 0)

-----------------------------------------------------------------------------
(* Reads of a dirty trie *)

\* the walk along node_key from ref at level i visits a branch one of whose
\* children is an unresolved reference
RECURSIVE PathUnresolved(_, _, _, _, _)
PathUnresolved(t, d, node_key, ref, i) ==
    LET visit(g) ==
            /\ g.err = ""
            /\ IsBranchType(g.node.nt)
            /\ \/ ~is_resolved(g.node.l, t.dirty_branch_nodes)
               \/ ~is_resolved(g.node.r, t.dirty_branch_nodes)
               \/ /\ i + 1 < TRIE_MAX_LEVELS
                  /\ PathUnresolved(t, d, node_key,
                         IF get_path(node_key, i) THEN g.node.r ELSE g.node.l, i + 1)
    IN visit(get_node_by_hash(t, d, ref))

\* C28: on a dirty trie whose path to a key holds a branch with an unresolved
\* child, prove, get and iter return a result or a structured error; none of
\* them ends in a panic
C28_NoAbort ==
    \A k \in Keys :
        PathUnresolved(Trie, db, KeyHasher_hash(k), root, 0) =>
            /\ prove(Trie, db, k).err # "Panic"
            /\ get(Trie, db, k).err # "Panic"
            /\ LET items(out) == \A j \in 1..Len(out) : out[j].err # "Panic"
               IN items(iter(Trie, db))

-----------------------------------------------------------------------------
(* The leaf of a proof *)

\* the fields of the node a proof ends with, before MAGIC_NODE_BYTES
LastProved(proof) == proof[Len(proof) - 1]

\* the leaf encoding ends with a non-zero kp_len and as many preimage bytes
EndsWithKeyPreimage(enc) ==
    /\ Len(enc) >= 2
    /\ enc[Len(enc)] # <<>>
    /\ enc[Len(enc) - 1] = <<Len(enc[Len(enc)])>>

\* C29: the proof of a key the trie holds ends with the leaf of that key, and
\* the encoding of that leaf carries the key preimage: its length, then its
\* bytes
C29_ProofLeafHasKeyPreimage ==
    \A k \in Keys :
        LET carried(p) ==
                p.err = "" =>
                    /\ LastProved(p.proof)[1] = <<Leaf>>
                    /\ LastProved(p.proof)[2] = KeyHasher_hash(k)
                    /\ EndsWithKeyPreimage(LastProved(p.proof))
        IN Present(k) => carried(prove(Trie, db, k))

\* what the code does: the leaf of every proof ends with kp_len = 0
C29_ProofLeafHasNoKeyPreimage ==
    \A k \in Keys :
        LET bare(p) ==
                p.err = "" =>
                    /\ LastProved(p.proof)[1] = <<Leaf>>
                    /\ LastProved(p.proof)[2] = KeyHasher_hash(k)
                    /\ LastProved(p.proof)[Len(LastProved(p.proof))] = <<0>>
        IN Present(k) => bare(prove(Trie, db, k))

-----------------------------------------------------------------------------
(* The reference reduction of a value array *)

\* leaf i (from 0) of the reference: hashed as bytes when i <= 24 and bit i
\* of flags is set, else the preimage itself, which must be a field element
RefLeafOk(preimage, flags, i) ==
    (i <= 24 /\ (flags \div (2 ^ i)) % 2 = 1) \/ IsFieldElement(preimage)

RefLeaf(preimage, flags, i) ==
    IF i <= 24 /\ (flags \div (2 ^ i)) % 2 = 1 THEN hash_bytes(preimage) ELSE preimage

\* one round: neighbours are hashed in pairs from the left, an unpaired last
\* element is carried over as it is
RECURSIVE RefRound(_, _)
RefRound(elems, domain) ==
    IF Len(elems) = 0 THEN <<>>
    ELSE IF Len(elems) = 1 THEN elems
    ELSE <<Hash(domain, elems[1], elems[2])>>
            \o RefRound(SubSeq(elems, 3, Len(elems)), domain)

RECURSIVE RefRounds(_, _)
RefRounds(elems, domain) ==
    IF Len(elems) = 1 THEN elems[1] ELSE RefRounds(RefRound(elems, domain), domain)

Reference(preimages, flags) ==
    IF \E i \in 1..Len(preimages) : ~RefLeafOk(preimages[i], flags, i - 1)
    THEN [ok |-> FALSE, hash |-> Unset]
    ELSE [ok |-> TRUE,
          hash |-> RefRounds([i \in 1..Len(preimages) |->
                                  RefLeaf(preimages[i], flags, i - 1)],
                             Len(preimages) * 256)]

-----------------------------------------------------------------------------
(* The path bit *)

\* the number a key denotes, read big-endian
RECURSIVE BigEndian(_)
BigEndian(bytes) ==
    IF bytes = <<>> THEN 0
    ELSE 256 * BigEndian(SubSeq(bytes, 1, Len(bytes) - 1)) + bytes[Len(bytes)]

\* bit level of that number: bit (level mod 8) of byte
\* (HASH_SIZE - 1 - level div 8), level 0 the lowest bit of the last byte
PathBit(node_key, level) == (BigEndian(node_key) \div (2 ^ level)) % 2 = 1

PathBytes == {0, 1, 64, 128, 170, 255}
PathKeys == [1..HASH_SIZE -> PathBytes]

\* the nodes met from ref at level i when the right child is taken exactly
\* where the path bit is 1
RECURSIVE BitWalk(_, _, _, _, _)
BitWalk(t, d, node_key, ref, i) ==
    LET visit(g) ==
            IF g.err # "" THEN <<>>
            ELSE IF IsBranchType(g.node.nt) /\ i + 1 < TRIE_MAX_LEVELS
            THEN <<g.node>> \o BitWalk(t, d, node_key,
                                       IF PathBit(node_key, i) THEN g.node.r ELSE g.node.l,
                                       i + 1)
            ELSE <<g.node>>
    IN visit(get_node_by_hash(t, d, ref))

WalkOf(k) == BitWalk(Trie, db, KeyHasher_hash(k), root, 0)

\* the last node of a walk is the leaf of k holding v
EndsAtLeaf(walk, k, v) ==
    /\ walk # <<>>
    /\ walk[Len(walk)].nt = Leaf
    /\ walk[Len(walk)].node_key = KeyHasher_hash(k)
    /\ walk[Len(walk)].pre = v.pre
    /\ walk[Len(walk)].flags = v.flags

\* get_path is the path bit at every level, whatever byte 0 holds
PathBitOfEveryKey ==
    \A key \in PathKeys, level \in 0..(TRIE_MAX_LEVELS - 1) :
        /\ get_path(key, level) = PathBit(key, level)
        /\ get_path(key, level) = get_path([key EXCEPT ![1] = 0], level)

-----------------------------------------------------------------------------
(* The incremental collector *)

\* C32: after updates and deletes, a commit and then gc on a store with GC
\* enabled, every node reachable from the root is in the store and get
\* returns the value of every key the trie holds, also when a node whose
\* hash is a gc candidate was created again
C32_GcKeepsReachable ==
    (ret.op = "gc" /\ gc_supported /\ gc_enabled /\ ~is_dirty(Trie)) =>
        /\ AllStored(Trie, db)
        /\ \A k \in Keys : Present(k) => get(Trie, db, k) = Found(kv[k])

-----------------------------------------------------------------------------
(* A commit the store rejects *)

\* C33: a commit that returns a store error part-way loses nothing: get
\* still returns the value of every key the trie holds, is_dirty still tells
\* of the uncommitted work, and a later commit over a writable store succeeds
\* with the root the map has and a store that holds every reachable node
C33_FailedCommitLosesNothing ==
    /\ \A k \in Keys : Present(k) => get(Trie, db, k) = Found(kv[k])
    /\ (ret.op = "commit" /\ ret.err = "Db") =>
          /\ is_dirty(Trie)
          /\ LET again(c) ==
                     /\ c.err = ""
                     /\ c.t.root = Fresh(kv).t.root
                     /\ AllStored(c.t, c.d)
             IN again(commit(Trie, db))

-----------------------------------------------------------------------------
(* Canonical form *)

\* the branch under ref is one a deletion has to fold away: both children
\* are terminal and one of them is empty
Foldable(t, d, node) ==
    /\ IsTerminal(t, d, node.l)
    /\ IsTerminal(t, d, node.r)
    /\ is_zero(node.l, t.dirty_branch_nodes) \/ is_zero(node.r, t.dirty_branch_nodes)

\* C34: after any updates and deletes no branch reachable from the root has
\* two terminal children one of which is empty, and every reachable branch
\* has two leaves or more below it; a delete that leaves one key leaves its
\* leaf as the root
C34_Canonical ==
    /\ \A x \in ReachableRefs(Trie, db, root) :
          LET shaped(g) ==
                  IsBranchType(g.node.nt) =>
                      /\ ~Foldable(Trie, db, g.node)
                      /\ Cardinality(LeafRefs(Trie, db, x)) >= 2
          IN shaped(get_node_by_hash(Trie, db, x))
    /\ \A a \in Keys : Only(a) => get_node_by_hash(Trie, db, root).node.nt = Leaf

\* a delete found its key and folded every branch above the one leaf left
C34_Witness ==
    /\ ret.op = "delete" /\ ret.found
    /\ \E a \in Keys : Only(a)
    /\ get_node_by_hash(Trie, db, root).node.nt = Leaf

-----------------------------------------------------------------------------
(* The order of the writes of a commit *)

\* the branches d holds under the hashes hs have each child empty or in d
ClosedOver(d, hs) ==
    \A h \in hs :
        IsBranchType(d[h].nt) =>
            \A c \in {d[h].l.hash, d[h].r.hash} : c = ZERO \/ c \in DOMAIN d

\* every branch the store holds has each child empty or in the store
StoreClosed(d) == ClosedOver(d, DOMAIN d)

\* no commit writes more nodes than are dirty
Pending(t) == Len(t.dirty_branch_nodes) + Cardinality(DOMAIN t.dirty_leafs)

\* the number of writes of a commit of t over d
Writes(t, d) ==
    IF ~is_dirty(t) THEN 0
    ELSE Pending(t) - resolve_commit_until(t, d, t.root, Pending(t)).puts

\* the stores a commit of t over d passes through: d after its first n writes
StoreAfter(t, d, n) == commit_until(t, d, n).d

\* C35: commit writes a branch after its children are resolved and, where
\* new, written: after each write of a commit every branch in the store has
\* each child empty or in the store, and no branch with an unresolved child
\* reaches put_node, so commit does not panic
C35_PostOrder ==
    /\ StoreClosed(db)
    /\ LET stepwise(w) ==
               \A n \in 0..w :
                   LET sound(r) ==
                           /\ r.err = (IF n < w THEN "Db" ELSE "")
                           /\ ClosedOver(r.d, DOMAIN r.d \ DOMAIN db)
                   IN sound(commit_until(Trie, db, n))
       IN stepwise(Writes(Trie, db))

\* a dirty trie with two dirty branches or more and a dirty leaf: its commit
\* has written the leaf and one branch, and more is to be written
C35_Witness ==
    /\ Len(dirty_branch_nodes) >= 2
    /\ DOMAIN dirty_leafs # {}
    /\ commit_until(Trie, db, 2).err = "Db"
    /\ DOMAIN StoreAfter(Trie, db, 2) # DOMAIN db
    /\ \E h \in DOMAIN StoreAfter(Trie, db, 2) \ DOMAIN db :
          IsBranchType(StoreAfter(Trie, db, 2)[h].nt)

-----------------------------------------------------------------------------
(* Path compression *)

\* where the walk for node_key ends: the first reference from ref at level i
\* on that does not resolve to a branch, [level, ref, err, node]
RECURSIVE Slot(_, _, _, _, _)
Slot(t, d, node_key, ref, i) ==
    LET visit(g) ==
            IF g.err = "" /\ IsBranchType(g.node.nt) /\ i + 1 < TRIE_MAX_LEVELS
            THEN Slot(t, d, node_key,
                      IF PathBit(node_key, i) THEN g.node.r ELSE g.node.l, i + 1)
            ELSE [level |-> i, ref |-> ref, err |-> g.err, node |-> g.node]
    IN visit(get_node_by_hash(t, d, ref))

\* the reference the walk for node_key holds at level l
RECURSIVE RefAt(_, _, _, _, _, _)
RefAt(t, d, node_key, ref, i, l) ==
    IF i = l THEN ref
    ELSE LET below(g) ==
                 RefAt(t, d, node_key,
                       IF PathBit(node_key, i) THEN g.node.r ELSE g.node.l, i + 1, l)
         IN below(get_node_by_hash(t, d, ref))

\* the first level from l on at which the node keys a and b differ
FirstDiffer(a, b, l) ==
    CHOOSE i \in l..(TRIE_MAX_LEVELS - 1) :
        /\ PathBit(a, i) # PathBit(b, i)
        /\ \A j \in l..(i - 1) : PathBit(a, j) = PathBit(b, j)

\* from ref at level on: one padding branch per level the node keys a and b
\* share (LTRB with an empty left child for a shared 1, LBRT with an empty
\* right child for a shared 0) down to level last, where an LTRT holds the
\* leaf with bit 0 on the left and the leaf with bit 1 on the right; the
\* leaf of a is held under old_hash
RECURSIVE Padded(_, _, _, _, _, _, _, _)
Padded(t, d, ref, a, b, level, last, old_hash) ==
    LET leaf_of(side, node_key) ==
            LET held(c) == c.err = "" /\ c.node.nt = Leaf /\ c.node.node_key = node_key
            IN ~side.lazy /\ held(get_node_by_hash(t, d, side))
        shaped(g) ==
            /\ g.err = ""
            /\ IF level < last
               THEN /\ PathBit(a, level) = PathBit(b, level)
                    /\ g.node.nt = (IF PathBit(a, level) THEN BranchLTRB ELSE BranchLBRT)
                    /\ (IF PathBit(a, level) THEN g.node.l ELSE g.node.r) = HashRef(ZERO)
                    /\ Padded(t, d, IF PathBit(a, level) THEN g.node.r ELSE g.node.l,
                              a, b, level + 1, last, old_hash)
               ELSE /\ g.node.nt = BranchLTRT
                    /\ leaf_of(g.node.l, IF PathBit(a, level) THEN b ELSE a)
                    /\ leaf_of(g.node.r, IF PathBit(a, level) THEN a ELSE b)
                    /\ (IF PathBit(a, level) THEN g.node.r ELSE g.node.l) = HashRef(old_hash)
    IN shaped(get_node_by_hash(t, d, ref))

\* C36: when raw_update for node key b comes, at level l, to a slot that
\* holds a leaf with another node key a, and a and b first differ from l on
\* at a level last <= TRIE_MAX_LEVELS - 2, it succeeds unless the value fails
\* to hash, and the slot then holds last - l padding branches over an LTRT at
\* level last that holds the two leaves, the old leaf under its old hash
C36_PathCompression ==
    [][\A k \in Keys :
          LET b == KeyHasher_hash(k)
              pushed(s) ==
                  (/\ ret'.op = "raw_update" /\ ret'.key = k
                   /\ s.err = "" /\ s.node.nt = Leaf /\ s.node.node_key # b
                   /\ FirstDiffer(s.node.node_key, b, s.level) <= TRIE_MAX_LEVELS - 2)
                  => /\ ret'.err \in {"", "Hash"}
                     /\ ret'.err = "" =>
                           Padded(Trie', db', RefAt(Trie', db', b, root', 0, s.level),
                                  s.node.node_key, b, s.level,
                                  FirstDiffer(s.node.node_key, b, s.level),
                                  try_as_hash(s.ref, dirty_branch_nodes))
          IN pushed(Slot(Trie, db, b, root, 0))]_vars

\* key 4 went into a trie that held keys 1 and 2: it met the leaf of key 1
\* at level 1, and the two part at level TRIE_MAX_LEVELS - 2
C36_Witness ==
    /\ ret.op = "raw_update" /\ ret.err = "" /\ ret.key = 4
    /\ {k \in Keys : Present(k)} = {1, 2, 4}
    /\ FirstDiffer(KeyHasher_hash(1), KeyHasher_hash(4), 1) = TRIE_MAX_LEVELS - 2
    /\ Padded(Trie, db, RefAt(Trie, db, KeyHasher_hash(4), root, 0, 1),
              KeyHasher_hash(1), KeyHasher_hash(4), 1, TRIE_MAX_LEVELS - 2,
              LeafHashOf(1, kv[1]))

-----------------------------------------------------------------------------
(* A clean trie *)

\* C37: whenever is_dirty() is false after raw_update, delete and commit
\* calls, the root is a resolved hash and every node reachable from it is in
\* the store, so nothing is lost when commit is skipped; so it is right
\* after a delete that folds the trie down to a committed leaf or to nothing
C37_CleanIsStored ==
    ~is_dirty(Trie) =>
        /\ ~root.lazy
        /\ AllStored(Trie, db)
        /\ commit(Trie, db) = [err |-> "", t |-> Trie, d |-> db]
        /\ \A k \in Keys : Present(k) => get(Trie, db, k) = Found(kv[k])

\* a delete found its key and left a clean trie whose root is the committed
\* leaf of the one key left
C37_Witness ==
    /\ ret.op = "delete" /\ ret.found
    /\ ~is_dirty(Trie)
    /\ \E a \in Keys : Only(a) /\ root = HashRef(LeafHashOf(a, kv[a]))

-----------------------------------------------------------------------------
(* full_gc *)

\* C38: full_gc on a dirty trie, or over a store that does not support GC,
\* returns Ok, removes nothing from the store and leaves the store's
\* GC-enabled flag and the trie as they were
C38_FullGcSkips ==
    [][(ret'.op = "full_gc" /\ steps' = steps + 1 /\ (is_dirty(Trie) \/ ~gc_supported))
          => /\ ret'.err = ""
             /\ db' = db
             /\ gc_enabled' = gc_enabled
             /\ Trie' = Trie]_vars

\* full_gc returned from a dirty trie over a store that supports GC and
\* holds a node the trie does not reach
C38_Witness ==
    /\ ret.op = "full_gc" /\ ret.err = ""
    /\ is_dirty(Trie)
    /\ gc_supported
    /\ DOMAIN db \ ReachableHashes(Trie, db) # {}

\* C39: full_gc leaves the store's GC-enabled flag as it was before the call
\* on every return path, also when the traversal or the temporary purge
\* store fails and full_gc returns an error
C39_FullGcKeepsFlag ==
    [][(ret'.op = "full_gc" /\ steps' = steps + 1) => gc_enabled' = gc_enabled]_vars

\* what the code does: the flag is as before when full_gc returns Ok, and
\* set when it returns an error
C39_FullGcKeepsFlagOnOk ==
    [][(ret'.op = "full_gc" /\ steps' = steps + 1)
          => gc_enabled' = (IF ret'.err = "" THEN gc_enabled ELSE TRUE)]_vars

-----------------------------------------------------------------------------
(* Updates of a dirty trie *)

\* the branches the root reaches
ReachableBranches ==
    {n \in NodesBelow(Trie, db, root) : IsBranchType(n.nt)}

\* C40: raw_update and delete on a dirty trie do not end in a panic on an
\* unresolved reference: in every branch the root reaches, a child on a side
\* that node_type marks terminal is a resolved hash, never a lazy branch
\* reference, so the unwraps in add_leaf and delete_node succeed
C40_TerminalSidesResolved ==
    /\ ret.op \in {"raw_update", "delete"} => ret.err # "Panic"
    /\ \A n \in ReachableBranches :
          /\ LeftIsT(n.nt) => ~n.l.lazy /\ n.l.hash # Unset
          /\ RightIsT(n.nt) => ~n.r.lazy /\ n.r.hash # Unset

\* a delete found its key in a trie that was dirty before it and is dirty
\* after it, with a branch that holds an unresolved reference next to a
\* terminal side
C40_Witness ==
    /\ ret.op = "delete" /\ ret.found
    /\ DOMAIN dirty_leafs # {}
    /\ root.lazy
    /\ \E n \in ReachableBranches :
          /\ n.l.lazy \/ n.r.lazy
          /\ LeftIsT(n.nt) \/ RightIsT(n.nt)

====
